---- MODULE Spec2Model ----
(***************************************************************************)
(* A model of the LUXBIN -> EVM compiler: the compile facade, the ABI      *)
(* generator with its mutability / log-usage analysis, and the page state  *)
(* that consumes a CompileResult.                                          *)
(*                                                                         *)
(* Encoding of JavaScript values:                                          *)
(*   - an AST node is a record with a "type" tag and the fields of its     *)
(*     kind;                                                               *)
(*   - a null Expression is the record Null; a null string is NullType;    *)
(*   - an optional block (IfStatement.alternate) is a sequence holding     *)
(*     zero or one block: << >> is null, <<b>> is the block b;             *)
(*   - a text is a sequence of lines, "" is << >>;                         *)
(*   - the value undefined read where a list is expected is Undefined.     *)
(***************************************************************************)
EXTENDS Naturals, Sequences, FiniteSets, TLC

VARIABLES
    program,        \* the Program handed to generateABI
    abiResult,      \* what generateABI returned for it (NotGenerated before)
    source,         \* DeployPage: the source text in the editor
    contractName,   \* DeployPage: the contract name
    lastCall,       \* the arguments of the last compile call
    result,         \* what the last compile call returned (or raised)
    solidity,       \* DeployPage state
    abi,            \* DeployPage state
    bytecode,       \* DeployPage state
    warnings,       \* DeployPage state
    compileError,   \* DeployPage state
    activeTab,      \* DeployPage state
    frames,         \* the invocations of generateABI / compile, each with its locals
    walk,           \* one run of generateABI, statement by statement
    page            \* DeployPage: the state of the bytecode, deploy and interact parts

abiVars == <<program, abiResult>>
pageVars == <<source, contractName, lastCall, result, solidity, abi, bytecode,
              warnings, compileError, activeTab>>
vars == <<program, abiResult, source, contractName, lastCall, result, solidity, abi,
          bytecode, warnings, compileError, activeTab, frames, walk, page>>

-----------------------------------------------------------------------------
(* Bounds of the model. *)

\* statement nodes (simple and compound) in one function body
MaxNodes == 3
\* top-level statements of a program of the mixed family
MaxTop == 3
\* lines of a source text
MaxLines == 3
\* invocations of generateABI / compile in one run
MaxCalls == 3
\* contract calls started on the interact tab
MaxStarted == 3

-----------------------------------------------------------------------------
(* JavaScript null / undefined. *)

Null == [type |-> "Null"]
NullType == "<null>"
NullText == "<null>"
Undefined == <<[type |-> "undefined"]>>

-----------------------------------------------------------------------------
(* AST nodes (types.ts is used through these shapes by index.ts). *)

NumberLiteral == [type |-> "NumberLiteral"]
StringLiteral == [type |-> "StringLiteral"]
BooleanLiteral == [type |-> "BooleanLiteral"]
ArrayLiteral == [type |-> "ArrayLiteral"]
Identifier == [type |-> "Identifier"]
IndexExpression == [type |-> "IndexExpression"]
BinaryExpression(op) == [type |-> "BinaryExpression", operator |-> op]
UnaryExpression(op) == [type |-> "UnaryExpression", operator |-> op]
CallExpression(callee, args) ==
    [type |-> "CallExpression", callee |-> callee, arguments |-> args]

LetDeclaration(name, typeAnnotation, value) ==
    [type |-> "LetDeclaration", name |-> name,
     typeAnnotation |-> typeAnnotation, value |-> value]
ConstDeclaration(name, typeAnnotation, value) ==
    [type |-> "ConstDeclaration", name |-> name,
     typeAnnotation |-> typeAnnotation, value |-> value]
Param(name, typeAnnotation) == [name |-> name, typeAnnotation |-> typeAnnotation]
FunctionDeclaration(name, params, returnType, body) ==
    [type |-> "FunctionDeclaration", name |-> name, params |-> params,
     returnType |-> returnType, body |-> body]
IfStatement(consequent, alternateConditions, alternate) ==
    [type |-> "IfStatement", consequent |-> consequent,
     alternateConditions |-> alternateConditions, alternate |-> alternate]
ElseIf(body) == [condition |-> Identifier, body |-> body]
WhileStatement(body) == [type |-> "WhileStatement", body |-> body]
ForStatement(body) == [type |-> "ForStatement", variable |-> "i", body |-> body]
ReturnStatement(value) == [type |-> "ReturnStatement", value |-> value]
Assignment == [type |-> "Assignment", value |-> NumberLiteral]
IndexAssignment == [type |-> "IndexAssignment", value |-> NumberLiteral]
ExpressionStatement(expression) ==
    [type |-> "ExpressionStatement", expression |-> expression]
BreakStatement == [type |-> "BreakStatement"]

-----------------------------------------------------------------------------
(* Type mapping. *)

TypeMapKeys ==
    {"photon_int", "photon_float", "photon_string", "photon_bool",
     "photon_array", "qubit"}

TYPE_MAP(t) ==
    CASE t = "photon_int" -> "int256"
      [] t = "photon_float" -> "int256"
      [] t = "photon_string" -> "string"
      [] t = "photon_bool" -> "bool"
      [] t = "photon_array" -> "int256[]"
      [] t = "qubit" -> "uint256"

\* a mapping that hands an annotation outside the table through unchanged
toSolTypePassThrough(luxbinType) ==
    IF luxbinType = NullType \/ luxbinType = ""
    THEN "int256"
    ELSE IF luxbinType \in TypeMapKeys THEN TYPE_MAP(luxbinType) ELSE luxbinType

toSolType(luxbinType) ==
    IF luxbinType = NullType \/ luxbinType = ""
    THEN "int256"
    ELSE IF luxbinType \in TypeMapKeys THEN TYPE_MAP(luxbinType) ELSE "int256"

-----------------------------------------------------------------------------
(* Analyses over a statement list. *)

RECURSIVE functionHasReturn(_)
functionHasReturn(body) ==
    \E i \in DOMAIN body :
        LET stmt == body[i] IN
        \/ stmt.type = "ReturnStatement" /\ stmt.value.type # "Null"
        \/ /\ stmt.type = "IfStatement"
           /\ \/ functionHasReturn(stmt.consequent)
              \/ stmt.alternate # <<>> /\ functionHasReturn(stmt.alternate[1])
              \/ \E j \in DOMAIN stmt.alternateConditions :
                    functionHasReturn(stmt.alternateConditions[j].body)
        \/ stmt.type = "WhileStatement" /\ functionHasReturn(stmt.body)
        \/ stmt.type = "ForStatement" /\ functionHasReturn(stmt.body)

\* a scan that looks at the consequent and the else body of an if, and not at
\* its else-if clauses
RECURSIVE functionModifiesStateNoElseIf(_)
functionModifiesStateNoElseIf(body) ==
    \E i \in DOMAIN body :
        LET stmt == body[i] IN
        \/ stmt.type = "Assignment" \/ stmt.type = "IndexAssignment"
        \/ /\ stmt.type = "ExpressionStatement"
           /\ stmt.expression.type = "CallExpression"
           /\ stmt.expression.callee = "photon_print"
        \/ /\ stmt.type = "IfStatement"
           /\ \/ functionModifiesStateNoElseIf(stmt.consequent)
              \/ stmt.alternate # <<>> /\ functionModifiesStateNoElseIf(stmt.alternate[1])
        \/ stmt.type = "WhileStatement" /\ functionModifiesStateNoElseIf(stmt.body)
        \/ stmt.type = "ForStatement" /\ functionModifiesStateNoElseIf(stmt.body)

\* a scan that counts a photon_print call only when it has an argument, as
\* checkLogUsage does
RECURSIVE functionModifiesStateWithArguments(_)
functionModifiesStateWithArguments(body) ==
    \E i \in DOMAIN body :
        LET stmt == body[i] IN
        \/ stmt.type = "Assignment" \/ stmt.type = "IndexAssignment"
        \/ /\ stmt.type = "ExpressionStatement"
           /\ stmt.expression.type = "CallExpression"
           /\ stmt.expression.callee = "photon_print"
           /\ Len(stmt.expression.arguments) > 0
        \/ /\ stmt.type = "IfStatement"
           /\ \/ functionModifiesStateWithArguments(stmt.consequent)
              \/ /\ stmt.alternate # <<>>
                 /\ functionModifiesStateWithArguments(stmt.alternate[1])
              \/ \E j \in DOMAIN stmt.alternateConditions :
                    functionModifiesStateWithArguments(stmt.alternateConditions[j].body)
        \/ stmt.type = "WhileStatement" /\ functionModifiesStateWithArguments(stmt.body)
        \/ stmt.type = "ForStatement" /\ functionModifiesStateWithArguments(stmt.body)

RECURSIVE functionModifiesState(_)
functionModifiesState(body) ==
    \E i \in DOMAIN body :
        LET stmt == body[i] IN
        \/ stmt.type = "Assignment" \/ stmt.type = "IndexAssignment"
        \/ /\ stmt.type = "ExpressionStatement"
           /\ stmt.expression.type = "CallExpression"
           /\ stmt.expression.callee = "photon_print"
        \/ /\ stmt.type = "IfStatement"
           /\ \/ functionModifiesState(stmt.consequent)
              \/ stmt.alternate # <<>> /\ functionModifiesState(stmt.alternate[1])
              \/ \E j \in DOMAIN stmt.alternateConditions :
                    functionModifiesState(stmt.alternateConditions[j].body)
        \/ stmt.type = "WhileStatement" /\ functionModifiesState(stmt.body)
        \/ stmt.type = "ForStatement" /\ functionModifiesState(stmt.body)

\* a typing that knows the comparisons and takes and / or / not for integers
inferExprTypeComparisonsOnly(expr) ==
    CASE expr.type = "StringLiteral" -> "string"
      [] expr.type = "BooleanLiteral" -> "bool"
      [] expr.type = "ArrayLiteral" -> "int256[]"
      [] expr.type = "BinaryExpression" ->
            IF expr.operator \in {"==", "!=", "<", ">", "<=", ">="}
            THEN "bool" ELSE "int256"
      [] OTHER -> "int256"

inferExprType(expr) ==
    CASE expr.type = "StringLiteral" -> "string"
      [] expr.type = "BooleanLiteral" -> "bool"
      [] expr.type = "ArrayLiteral" -> "int256[]"
      [] expr.type = "NumberLiteral" -> "int256"
      [] expr.type = "BinaryExpression" ->
            IF expr.operator \in {"==", "!=", "<", ">", "<=", ">=", "and", "or"}
            THEN "bool" ELSE "int256"
      [] expr.type = "UnaryExpression" ->
            IF expr.operator = "not" THEN "bool" ELSE "int256"
      [] OTHER -> "int256"

\* the first top-level `return <expr>` of the body decides; no recursion
inferReturnType(body) ==
    LET hits == {i \in DOMAIN body :
                    body[i].type = "ReturnStatement" /\ body[i].value.type # "Null"}
    IN  IF hits = {} THEN "int256"
        ELSE inferExprType(body[CHOOSE i \in hits : \A j \in hits : i <= j].value)

\* usesLog after the statement's own photon_print test (lines 265-272)
LogFlagsOfCall(stmt, usesLog) ==
    IF /\ stmt.type = "ExpressionStatement"
       /\ stmt.expression.type = "CallExpression"
       /\ stmt.expression.callee = "photon_print"
       /\ Len(stmt.expression.arguments) > 0
    THEN LET arg == stmt.expression.arguments[1] IN
         IF arg.type = "StringLiteral" THEN [usesLog EXCEPT !.str = TRUE]
         ELSE IF arg.type = "BooleanLiteral" THEN [usesLog EXCEPT !.bool = TRUE]
         ELSE [usesLog EXCEPT !.int = TRUE]
    ELSE usesLog

RECURSIVE checkLogUsage(_, _)
RECURSIVE CheckLogUsageClauses(_, _)
CheckLogUsageClauses(clauses, usesLog) ==
    IF clauses = <<>> THEN usesLog
    ELSE CheckLogUsageClauses(Tail(clauses),
                              checkLogUsage(Head(clauses).body, usesLog))

\* usesLog is mutated in place by the code; here the updated flags are returned
checkLogUsage(body, usesLog) ==
    IF body = <<>> THEN usesLog
    ELSE
        LET stmt == Head(body)
            u1 == LogFlagsOfCall(stmt, usesLog)
            u2 == IF stmt.type = "FunctionDeclaration"
                  THEN checkLogUsage(stmt.body, u1) ELSE u1
            u3 == IF stmt.type = "IfStatement"
                  THEN LET a == checkLogUsage(stmt.consequent, u2)
                           b == IF stmt.alternate # <<>>
                                THEN checkLogUsage(stmt.alternate[1], a) ELSE a
                       IN  CheckLogUsageClauses(stmt.alternateConditions, b)
                  ELSE u2
            u4 == IF stmt.type = "WhileStatement"
                  THEN checkLogUsage(stmt.body, u3) ELSE u3
            u5 == IF stmt.type = "ForStatement"
                  THEN checkLogUsage(stmt.body, u4) ELSE u4
        IN  checkLogUsage(Tail(body), u5)

-----------------------------------------------------------------------------
(* ABI generation. *)

ABIParam(name, type) == [name |-> name, type |-> type]

EventEntry(name, inputs) ==
    [type |-> "event", name |-> name, inputs |-> inputs, anonymous |-> FALSE]
ConstructorEntry ==
    [type |-> "constructor", inputs |-> <<>>, stateMutability |-> "nonpayable"]
FunctionEntry(name, inputs, outputs, stateMutability) ==
    [type |-> "function", name |-> name, inputs |-> inputs, outputs |-> outputs,
     stateMutability |-> stateMutability]

\* inputs typed int256 whatever the parameter's annotation
generateFunctionABIUntypedInputs(func) ==
    LET hasReturn == functionHasReturn(func.body)
        returnType == IF func.returnType # NullType /\ func.returnType # ""
                      THEN toSolType(func.returnType)
                      ELSE inferReturnType(func.body)
    IN  FunctionEntry(func.name,
            [i \in DOMAIN func.params |-> ABIParam(func.params[i].name, "int256")],
            IF hasReturn THEN <<ABIParam("", returnType)>> ELSE <<>>,
            IF hasReturn /\ ~functionModifiesState(func.body)
            THEN "view" ELSE "nonpayable")

\* an output whenever the function declares a return type, returning or not
generateFunctionABIOutputByAnnotation(func) ==
    LET inputs == [i \in DOMAIN func.params |->
                      ABIParam(func.params[i].name,
                               toSolType(func.params[i].typeAnnotation))]
        hasReturn == functionHasReturn(func.body)
        annotated == func.returnType # NullType /\ func.returnType # ""
        returnType == IF annotated THEN toSolType(func.returnType)
                      ELSE inferReturnType(func.body)
    IN  FunctionEntry(func.name, inputs,
            IF hasReturn \/ annotated THEN <<ABIParam("", returnType)>> ELSE <<>>,
            IF hasReturn /\ ~functionModifiesState(func.body)
            THEN "view" ELSE "nonpayable")

\* "pure" for a read-only function whose body is a single return
generateFunctionABIPure(func) ==
    LET inputs == [i \in DOMAIN func.params |->
                      ABIParam(func.params[i].name,
                               toSolType(func.params[i].typeAnnotation))]
        hasReturn == functionHasReturn(func.body)
        returnType == IF func.returnType # NullType /\ func.returnType # ""
                      THEN toSolType(func.returnType)
                      ELSE inferReturnType(func.body)
    IN  FunctionEntry(func.name, inputs,
            IF hasReturn THEN <<ABIParam("", returnType)>> ELSE <<>>,
            IF hasReturn /\ ~functionModifiesState(func.body)
            THEN (IF Len(func.body) = 1 THEN "pure" ELSE "view")
            ELSE "nonpayable")

\* the output type inferred from the returned expression, annotation or not
generateFunctionABIInferredOutput(func) ==
    LET inputs == [i \in DOMAIN func.params |->
                      ABIParam(func.params[i].name,
                               toSolType(func.params[i].typeAnnotation))]
        hasReturn == functionHasReturn(func.body)
    IN  FunctionEntry(func.name, inputs,
            IF hasReturn THEN <<ABIParam("", inferReturnType(func.body))>> ELSE <<>>,
            IF hasReturn /\ ~functionModifiesState(func.body)
            THEN "view" ELSE "nonpayable")

generateFunctionABI(func) ==
    LET inputs == [i \in DOMAIN func.params |->
                      ABIParam(func.params[i].name,
                               toSolType(func.params[i].typeAnnotation))]
        hasReturn == functionHasReturn(func.body)
        returnType == IF func.returnType # NullType /\ func.returnType # ""
                      THEN toSolType(func.returnType)
                      ELSE inferReturnType(func.body)
        outputs == IF hasReturn THEN <<ABIParam("", returnType)>> ELSE <<>>
        stateMutability == IF hasReturn /\ ~functionModifiesState(func.body)
                           THEN "view" ELSE "nonpayable"
    IN  FunctionEntry(func.name, inputs, outputs, stateMutability)

\* lines 81-105: the event entries, in the order Log, LogInt, LogBool
EventEntries(usesLog) ==
    (IF usesLog.str
     THEN <<EventEntry("Log", <<ABIParam("message", "string")>>)>> ELSE <<>>)
    \o (IF usesLog.int
        THEN <<EventEntry("LogInt", <<ABIParam("value", "int256")>>)>> ELSE <<>>)
    \o (IF usesLog.bool
        THEN <<EventEntry("LogBool", <<ABIParam("value", "bool")>>)>> ELSE <<>>)

\* lines 107-113
hasConstructor(body) ==
    \E i \in DOMAIN body :
        /\ body[i].type # "LetDeclaration"
        /\ body[i].type # "ConstDeclaration"
        /\ body[i].type # "FunctionDeclaration"

\* lines 115-117
hasArrayState(body) ==
    \E i \in DOMAIN body :
        body[i].type = "LetDeclaration" /\ body[i].value.type = "ArrayLiteral"

\* lines 129-151: the getter of one top-level declaration
GetterEntry(stmt) ==
    LET outputType == IF stmt.value.type = "ArrayLiteral"
                      THEN "int256[]" ELSE toSolType(stmt.typeAnnotation)
    IN  IF stmt.value.type = "ArrayLiteral"
        THEN FunctionEntry(stmt.name, <<ABIParam("", "uint256")>>,
                           <<ABIParam("", "int256")>>, "view")
        ELSE FunctionEntry(stmt.name, <<>>, <<ABIParam("", outputType)>>, "view")

\* a test that takes let declarations only for state variables
IsLetDeclaration(stmt) == stmt.type = "LetDeclaration"

\* line 129
IsDeclaration(stmt) ==
    stmt.type = "LetDeclaration" \/ stmt.type = "ConstDeclaration"

RECURSIVE GetterEntries(_)
GetterEntries(body) ==
    IF body = <<>> THEN <<>>
    ELSE (IF IsDeclaration(Head(body)) THEN <<GetterEntry(Head(body))>> ELSE <<>>)
         \o GetterEntries(Tail(body))

RECURSIVE FunctionEntries(_)
FunctionEntries(body) ==
    IF body = <<>> THEN <<>>
    ELSE (IF Head(body).type = "FunctionDeclaration"
          THEN <<generateFunctionABI(Head(body))>> ELSE <<>>)
         \o FunctionEntries(Tail(body))

\* a generator that pushes the event entries while it scans each top-level
\* statement, one batch per statement that logs
generateABIEventsPerStatement(prog) ==
    LET none == [str |-> FALSE, int |-> FALSE, bool |-> FALSE]
        events[i \in 0..Len(prog.body)] ==
            IF i = 0 THEN <<>>
            ELSE events[i - 1] \o EventEntries(checkLogUsage(<<prog.body[i]>>, none))
    IN  events[Len(prog.body)]
        \o (IF hasConstructor(prog.body) \/ hasArrayState(prog.body)
            THEN <<ConstructorEntry>> ELSE <<>>)
        \o GetterEntries(prog.body)
        \o FunctionEntries(prog.body)

\* a generator with one loop over the top-level statements, pushing getters
\* and function entries as it meets them
generateABISingleLoop(prog) ==
    LET usesLog == checkLogUsage(prog.body,
                                 [str |-> FALSE, int |-> FALSE, bool |-> FALSE])
        entries[i \in 0..Len(prog.body)] ==
            IF i = 0 THEN <<>>
            ELSE entries[i - 1] \o GetterEntries(<<prog.body[i]>>)
                 \o FunctionEntries(<<prog.body[i]>>)
    IN  EventEntries(usesLog)
        \o (IF hasConstructor(prog.body) \/ hasArrayState(prog.body)
            THEN <<ConstructorEntry>> ELSE <<>>)
        \o entries[Len(prog.body)]

generateABI(prog) ==
    LET usesLog == checkLogUsage(prog.body,
                                 [str |-> FALSE, int |-> FALSE, bool |-> FALSE])
    IN  EventEntries(usesLog)
        \o (IF hasConstructor(prog.body) \/ hasArrayState(prog.body)
            THEN <<ConstructorEntry>> ELSE <<>>)
        \o GetterEntries(prog.body)
        \o FunctionEntries(prog.body)

-----------------------------------------------------------------------------
(* The programs generateABI is applied to. *)

TypeAnnotations ==
    {NullType, "", "photon_int", "photon_float", "photon_string", "photon_bool",
     "photon_array", "qubit", "photon_map"}

BinaryOperators ==
    {"==", "!=", "<", ">", "<=", ">=", "and", "or", "+", "-", "*", "/", "%", "^"}

PrintCall(args) == CallExpression("photon_print", args)

Expressions ==
    {NumberLiteral, StringLiteral, BooleanLiteral, ArrayLiteral, Identifier,
     IndexExpression, UnaryExpression("not"), UnaryExpression("-"),
     CallExpression("measure", <<Identifier>>), PrintCall(<<StringLiteral>>)}
    \cup {BinaryExpression(op) : op \in BinaryOperators}

\* statements the nested bodies are built from
BodyLeaves ==
    {ReturnStatement(StringLiteral), ReturnStatement(Null), Assignment,
     ExpressionStatement(PrintCall(<<StringLiteral>>))}

\* further simple statements, tried alone, before a return and in one block
OtherLeaves ==
    {IndexAssignment, BreakStatement,
     LetDeclaration("tmp", NullType, NumberLiteral),
     LetDeclaration("tmp", NullType, PrintCall(<<StringLiteral>>)),
     ReturnStatement(PrintCall(<<NumberLiteral>>)),
     ExpressionStatement(PrintCall(<<>>)),
     ExpressionStatement(Identifier),
     ExpressionStatement(CallExpression("measure", <<PrintCall(<<StringLiteral>>)>>))}
    \cup {ExpressionStatement(PrintCall(<<e>>)) : e \in Expressions}

BlockKinds == {"then", "elseif", "else", "while", "for"}

\* a compound statement holding the block b in the place named by kind
Block(kind, b) ==
    CASE kind = "then" -> IfStatement(b, <<>>, <<>>)
      [] kind = "elseif" -> IfStatement(<<>>, <<ElseIf(b)>>, <<>>)
      [] kind = "else" -> IfStatement(<<>>, <<>>, <<b>>)
      [] kind = "while" -> WhileStatement(b)
      [] kind = "for" -> ForStatement(b)

\* BodyTable(n)[k + 1]: the statement lists made of exactly k statement nodes,
\* for k = 0..n
RECURSIVE BodyTable(_)
BodyTable(n) ==
    IF n = 0 THEN << {<<>>} >>
    ELSE LET prev == BodyTable(n - 1)
             \* the statements made of exactly k statement nodes
             StatementsOfSize(k) ==
                 IF k = 1 THEN BodyLeaves
                 ELSE {Block(kind, b) : kind \in BlockKinds, b \in prev[k]}
         IN  Append(prev,
                    UNION {{<<s>> \o rest : s \in StatementsOfSize(k),
                                           rest \in prev[n - k + 1]} : k \in 1..n})

Bodies == LET table == BodyTable(MaxNodes) IN UNION {table[k] : k \in DOMAIN table}

TopNames == <<"alpha", "beta", "gamma", "delta", "epsilon", "zeta">>

HasName(stmt) ==
    stmt.type \in {"LetDeclaration", "ConstDeclaration", "FunctionDeclaration"}

\* top-level declaration names are unique: the i-th statement is named TopNames[i]
Program(body) ==
    [type |-> "Program",
     body |-> [i \in DOMAIN body |->
                 IF HasName(body[i]) THEN [body[i] EXCEPT !.name = TopNames[i]]
                 ELSE body[i]]]

Func(params, returnType, body) == FunctionDeclaration("f", params, returnType, body)

DeclarationValues ==
    {Null, NumberLiteral, StringLiteral, BooleanLiteral, ArrayLiteral,
     BinaryExpression("<"), PrintCall(<<StringLiteral>>)}

Declarations ==
    {LetDeclaration("v", t, v) : t \in TypeAnnotations, v \in DeclarationValues}
    \cup {ConstDeclaration("v", t, v) : t \in TypeAnnotations, v \in DeclarationValues}

\* functions over every nested body
NestedFunctionPrograms == {<<Func(<<>>, NullType, b)>> : b \in Bodies}

\* a statement two blocks deep, followed by a return
DeepFunctionPrograms ==
    {<<Func(<<>>, NullType,
            <<Block(outer, <<Block(inner, <<s>>)>>), ReturnStatement(StringLiteral)>>)>> :
        outer \in BlockKinds, inner \in BlockKinds, s \in BodyLeaves}

\* functions over every simple statement and every returned expression
LeafFunctionPrograms ==
    {<<Func(<<>>, NullType, <<s>>)>> : s \in OtherLeaves}
    \cup {<<Func(<<>>, NullType, <<s, ReturnStatement(StringLiteral)>>)>> :
            s \in OtherLeaves}
    \cup {<<Func(<<>>, NullType, <<Block(kind, <<s>>), ReturnStatement(StringLiteral)>>)>> :
            kind \in BlockKinds, s \in OtherLeaves}
    \cup {<<Func(<<>>, t, <<ReturnStatement(e)>>)>> :
            t \in TypeAnnotations, e \in Expressions \cup {Null}}
    \cup {<<Func(<<>>, NullType, <<Block(kind, <<ReturnStatement(e)>>),
                                   ReturnStatement(NumberLiteral)>>)>> :
            kind \in BlockKinds, e \in Expressions}
    \cup {<<Func(<<Param("p", t), Param("q", u)>>, NullType, <<>>)>> :
            t \in TypeAnnotations, u \in {NullType, "photon_bool"}}
    \cup {<<Func(<<>>, t, <<s>>)>> :
            t \in TypeAnnotations, s \in {Assignment, ReturnStatement(Null)}}

DeclarationPrograms == {<<d>> : d \in Declarations}

\* statements of the mixed programs
TopShapes ==
    {LetDeclaration("v", NullType, NumberLiteral),
     LetDeclaration("v", NullType, ArrayLiteral),
     ConstDeclaration("v", NullType, ArrayLiteral),
     LetDeclaration("v", "photon_array", Null),
     ConstDeclaration("v", "photon_bool", BooleanLiteral),
     Func(<<>>, NullType, <<ReturnStatement(Identifier)>>),
     Func(<<>>, NullType, <<Assignment>>),
     Func(<<Param("p", "photon_int")>>, "photon_int",
          <<LetDeclaration("tmp", NullType, NumberLiteral),
            ForStatement(<<ExpressionStatement(PrintCall(<<NumberLiteral>>))>>),
            ReturnStatement(Identifier)>>),
     ExpressionStatement(PrintCall(<<StringLiteral>>)),
     ExpressionStatement(CallExpression("measure", <<Identifier>>)),
     Assignment,
     IfStatement(<<>>, <<ElseIf(<<ExpressionStatement(PrintCall(<<BooleanLiteral>>))>>)>>,
                 <<>>),
     WhileStatement(<<LetDeclaration("tmp", NullType, PrintCall(<<StringLiteral>>))>>)}

RECURSIVE SeqsUpTo(_, _)
SeqsUpTo(S, n) ==
    IF n = 0 THEN {<<>>}
    ELSE SeqsUpTo(S, n - 1)
         \cup {Append(q, s) : q \in {r \in SeqsUpTo(S, n - 1) : Len(r) = n - 1}, s \in S}

MixedPrograms == SeqsUpTo(TopShapes, MaxTop)

Programs ==
    {Program(body) : body \in NestedFunctionPrograms \cup DeepFunctionPrograms
                              \cup LeafFunctionPrograms \cup DeclarationPrograms
                              \cup MixedPrograms}

-----------------------------------------------------------------------------
(* generateABI applied to a program. *)

NotGenerated == <<[type |-> "not generated"]>>

GenerateABI ==
    /\ abiResult = NotGenerated
    /\ abiResult' = generateABI(program)
    /\ UNCHANGED <<program, pageVars, frames, walk, page>>

-----------------------------------------------------------------------------
(* The pipeline stages behind the facade: lexer.ts, parser.ts and          *)
(* codegen.ts.  A source text is a sequence of lines; the lexer turns each *)
(* line into the token group of one statement head.                        *)

SourceLines ==
    {"let count = 0", "let ratio: photon_float = 2", "func increment()",
     "count = count + 1", "return count", "photon_print(\"hi\")", "end",
     "let s = \"abc", "@"}

Sources == SeqsUpTo(SourceLines, MaxLines)

\* a thrown value: an Error instance with its message, or any other value
ErrorValue(name, message) == [isError |-> TRUE, name |-> name, message |-> message]
NonErrorValue == [isError |-> FALSE, name |-> "string", message |-> "thrown text"]

Returned(v) == [thrown |-> FALSE, value |-> v]
Thrown(e) == [thrown |-> TRUE, error |-> e]

\* an internal defect of one stage, raising some value whatever the input
NoFault == [stage |-> "none"]
InternalError == ErrorValue("TypeError", "internal defect")
InternalFaults ==
    {NoFault,
     [stage |-> "tokenize", value |-> InternalError],
     [stage |-> "parse", value |-> NonErrorValue],
     [stage |-> "generate", value |-> InternalError],
     [stage |-> "generate", value |-> NonErrorValue]}

TokenKind(line) ==
    CASE line = "let count = 0" -> "let"
      [] line = "let ratio: photon_float = 2" -> "let"
      [] line = "func increment()" -> "func"
      [] line = "count = count + 1" -> "assign"
      [] line = "return count" -> "return"
      [] line = "photon_print(\"hi\")" -> "call"
      [] line = "end" -> "end"
      [] line = "let s = \"abc" -> "unterminated string"
      [] line = "@" -> "unrecognized character"

Token(kind, lexeme, line) == [kind |-> kind, lexeme |-> lexeme, line |-> line]

tokenize(src, fault) ==
    LET bad == {i \in DOMAIN src :
                  TokenKind(src[i]) \in {"unterminated string", "unrecognized character"}}
    IN  IF fault.stage = "tokenize" THEN Thrown(fault.value)
        ELSE IF bad # {}
        THEN Thrown(ErrorValue("LexError",
                    TokenKind(src[CHOOSE i \in bad : \A j \in bad : i <= j])))
        ELSE Returned([i \in 1..(Len(src) + 1) |->
                         IF i <= Len(src) THEN Token(TokenKind(src[i]), src[i], i)
                         ELSE Token("eof", "", i)])

\* the statement a token group stands for
DeclaredName(tok) ==
    CASE tok.lexeme = "let count = 0" -> "count"
      [] tok.lexeme = "let ratio: photon_float = 2" -> "ratio"
      [] tok.lexeme = "func increment()" -> "increment"

ParsedLet(tok) ==
    IF tok.lexeme = "let ratio: photon_float = 2"
    THEN LetDeclaration("ratio", "photon_float", NumberLiteral)
    ELSE LetDeclaration("count", NullType, NumberLiteral)

\* stack: the open blocks, innermost last; stack[1] is the program body.
\* declared: the names declared so far.
RECURSIVE ParseFrom(_, _, _, _)
ParseFrom(tokens, i, stack, declared) ==
    LET tok == tokens[i]
        top == stack[Len(stack)]
        push(stmt) == [stack EXCEPT ![Len(stack)].body = Append(top.body, stmt)]
    IN
    CASE tok.kind = "eof" ->
            IF Len(stack) > 1
            THEN Thrown(ErrorValue("ParseError", "Expected 'end' to close func block"))
            ELSE Returned([type |-> "Program", body |-> stack[1].body])
      [] tok.kind = "let" ->
            IF DeclaredName(tok) \in declared
            THEN Thrown(ErrorValue("ParseError", "Duplicate declaration"))
            ELSE ParseFrom(tokens, i + 1, push(ParsedLet(tok)),
                           declared \cup {DeclaredName(tok)})
      [] tok.kind = "func" ->
            IF DeclaredName(tok) \in declared
            THEN Thrown(ErrorValue("ParseError", "Duplicate declaration"))
            ELSE ParseFrom(tokens, i + 1,
                           Append(stack, [name |-> DeclaredName(tok), body |-> <<>>]),
                           declared \cup {DeclaredName(tok)})
      [] tok.kind = "end" ->
            IF Len(stack) = 1
            THEN Thrown(ErrorValue("ParseError", "Unexpected token 'end'"))
            ELSE LET outer == SubSeq(stack, 1, Len(stack) - 1)
                     decl == FunctionDeclaration(top.name, <<>>, NullType, top.body)
                 IN  ParseFrom(tokens, i + 1,
                               [outer EXCEPT ![Len(outer)].body = Append(@, decl)],
                               declared)
      [] tok.kind \in {"assign", "return"} ->
            IF "count" \notin declared
            THEN Thrown(ErrorValue("ParseError", "Undefined variable 'count'"))
            ELSE ParseFrom(tokens, i + 1,
                           push(IF tok.kind = "assign" THEN Assignment
                                ELSE ReturnStatement(Identifier)),
                           declared)
      [] tok.kind = "call" ->
            ParseFrom(tokens, i + 1,
                      push(ExpressionStatement(PrintCall(<<StringLiteral>>))), declared)

parse(tokens, fault) ==
    IF fault.stage = "parse" THEN Thrown(fault.value)
    ELSE ParseFrom(tokens, 1, <<[name |-> "", body |-> <<>>]>>, {})

\* the contract text, one line per top-level statement between header and footer
generate(ast, name, fault) ==
    LET floats == SelectSeq(ast.body,
                    LAMBDA st : IsDeclaration(st) /\ st.typeAnnotation = "photon_float")
    IN  IF fault.stage = "generate" THEN Thrown(fault.value)
        ELSE Returned(
               [solidity |-> <<"pragma solidity ^0.8.20;", "contract", name>>
                             \o [i \in DOMAIN ast.body |-> ast.body[i].type]
                             \o <<"}">>,
                warnings |-> [i \in DOMAIN floats |->
                                "photon_float is approximated by int256"]])

-----------------------------------------------------------------------------
(* The compile facade. *)

\* a catch clause that handles Error instances only and rethrows the rest
CompileCatchErrorsOnly(e) ==
    IF e.isError
    THEN Returned([success |-> FALSE, solidity |-> <<>>, warnings |-> <<>>,
                   error |-> e.message])
    ELSE Thrown(e)

\* lines 24-31: the catch clause
CompileCatch(e) ==
    Returned([success |-> FALSE, solidity |-> <<>>, warnings |-> <<>>,
              error |-> IF e.isError THEN e.message ELSE "Unknown compilation error"])

\* fault is the internal defect, if any, that shows during this call
compile(src, name, fault) ==
    LET tokens == tokenize(src, fault)
        ast == parse(tokens.value, fault)
        gen == generate(ast.value, name, fault)
    IN  IF tokens.thrown THEN CompileCatch(tokens.error)
        ELSE IF ast.thrown THEN CompileCatch(ast.error)
        ELSE IF gen.thrown THEN CompileCatch(gen.error)
        ELSE Returned([success |-> TRUE, solidity |-> gen.value.solidity,
                       warnings |-> gen.value.warnings, error |-> NullText])

\* JavaScript property read: a property the object lacks reads as undefined
Get(obj, field) == IF field \in DOMAIN obj THEN obj[field] ELSE Undefined

-----------------------------------------------------------------------------
(* DeployPage. *)

NotCalled == [thrown |-> FALSE, value |-> [success |-> FALSE, called |-> FALSE]]
NoCall == [source |-> <<>>, contractName |-> "", fault |-> NoFault]

\* the first lines of EXAMPLES[0], the source the page opens with
CounterExample == <<"let count = 0", "func increment()", "count = count + 1", "end">>

\* the textarea emptied: the opening example is deleted to type a text
ClearSource ==
    /\ source = CounterExample
    /\ source' = <<>>
    /\ UNCHANGED <<abiVars, contractName, lastCall, result, solidity, abi, bytecode,
                   warnings, compileError, activeTab, frames, walk, page>>

\* the textarea: one more line typed at the end of the source
EditSource(line) ==
    /\ Len(source) < MaxLines
    /\ source' = Append(source, line)
    /\ UNCHANGED <<abiVars, contractName, lastCall, result, solidity, abi, bytecode,
                   warnings, compileError, activeTab, frames, walk, page>>

HandleCompileLuxbin(fault) ==
    LET r == compile(source, contractName, fault) IN
    /\ lastCall' = [source |-> source, contractName |-> contractName, fault |-> fault]
    /\ result' = r
    /\ IF r.thrown
       THEN UNCHANGED <<solidity, abi, warnings, compileError, bytecode, activeTab>>
       ELSE IF r.value.success
       THEN /\ solidity' = r.value.solidity
            /\ abi' = Get(r.value, "abi")
            /\ warnings' = r.value.warnings
            /\ compileError' = NullText
            /\ bytecode' = <<>>
            /\ activeTab' = "compile"
       ELSE /\ solidity' = <<>>
            /\ abi' = <<>>
            /\ compileError' = r.value.error
            /\ activeTab' = "compile"
            /\ UNCHANGED <<warnings, bytecode>>
    /\ UNCHANGED <<abiVars, source, contractName, frames, walk, page>>

-----------------------------------------------------------------------------
(* Invocations of generateABI and compile, statement group by statement    *)
(* group.  Each invocation has a frame holding its arguments and locals;   *)
(* the steps of different invocations may interleave.  Invocations are     *)
(* numbered in the order they are entered.                                 *)

Calls == 1..MaxCalls

Idle == [fn |-> "idle", pc |-> "idle"]
NoCalls == [c \in Calls |-> Idle]

CallPrograms ==
    {Program(<<ExpressionStatement(PrintCall(<<StringLiteral>>))>>),
     Program(<<LetDeclaration("v", NullType, NumberLiteral),
               Func(<<>>, NullType, <<ReturnStatement(Identifier)>>)>>)}

CallSources ==
    {CounterExample, <<"let ratio: photon_float = 2">>, <<"func increment()">>}

CallContractNames == {"LuxbinContract", "Counter"}

Entered(c) == IF c = 1 THEN TRUE ELSE frames[c - 1].pc # "idle"

\* a usesLog object kept at module level, as the invocation before left it
UsesLogLeftOver(c) ==
    IF c > 1 /\ frames[c - 1].fn = "generateABI" THEN frames[c - 1].usesLog
    ELSE [str |-> FALSE, int |-> FALSE, bool |-> FALSE]

\* line 76: const usesLog = { str: false, int: false, bool: false }
UsesLogAtEntry(c) == [str |-> FALSE, int |-> FALSE, bool |-> FALSE]

\* an abi list kept at module level, as the invocation before left it
AbiLeftOver(c) ==
    IF c > 1 /\ frames[c - 1].fn = "generateABI" THEN frames[c - 1].abi ELSE <<>>

\* line 75: const abi: ABIEntry[] = []
AbiAtEntry(c) == <<>>

\* lines 74-76
CallGenerateABI(c, prog) ==
    /\ frames[c].pc = "idle"
    /\ Entered(c)
    /\ frames' = [frames EXCEPT ![c] =
                    [fn |-> "generateABI", pc |-> "checkLogUsage", program |-> prog,
                     abi |-> AbiAtEntry(c), usesLog |-> UsesLogAtEntry(c)]]
    /\ UNCHANGED <<abiVars, pageVars, walk, page>>

\* line 79
ScanLogUsage(c) ==
    /\ frames[c].pc = "checkLogUsage"
    /\ frames' = [frames EXCEPT
                    ![c].usesLog = checkLogUsage(frames[c].program.body, @),
                    ![c].pc = "events"]
    /\ UNCHANGED <<abiVars, pageVars, walk, page>>

\* lines 81-105
PushEvents(c) ==
    /\ frames[c].pc = "events"
    /\ frames' = [frames EXCEPT
                    ![c].abi = @ \o EventEntries(frames[c].usesLog),
                    ![c].pc = "entries"]
    /\ UNCHANGED <<abiVars, pageVars, walk, page>>

\* lines 107-162: constructor, getters, functions, return abi
PushEntriesAndReturn(c) ==
    /\ frames[c].pc = "entries"
    /\ LET body == frames[c].program.body
           list == frames[c].abi
                     \o (IF hasConstructor(body) \/ hasArrayState(body)
                         THEN <<ConstructorEntry>> ELSE <<>>)
                     \o GetterEntries(body)
                     \o FunctionEntries(body)
       IN  frames' = [frames EXCEPT ![c] =
                        [(@ @@ [result |-> list]) EXCEPT !.abi = list, !.pc = "done"]]
    /\ UNCHANGED <<abiVars, pageVars, walk, page>>

\* lines 12-14: the arguments and new Lexer(source)
CallCompile(c, src, name) ==
    /\ frames[c].pc = "idle"
    /\ Entered(c)
    /\ frames' = [frames EXCEPT ![c] =
                    [fn |-> "compile", pc |-> "tokenize", source |-> src,
                     contractName |-> name]]
    /\ UNCHANGED <<abiVars, pageVars, walk, page>>

\* one stage of the try block (lines 15, 18, 20-23), or the catch clause
\* (lines 24-31) when the stage throws; after is the frame when it does not
CompileStage(c, pc, stage, next, after) ==
    /\ frames[c].pc = pc
    /\ frames' = [frames EXCEPT ![c] =
                    IF stage.thrown
                    THEN [(@ @@ [result |-> CompileCatch(stage.error)])
                            EXCEPT !.pc = "done"]
                    ELSE [after EXCEPT !.pc = next]]
    /\ UNCHANGED <<abiVars, pageVars, walk, page>>

\* line 15
Tokenize(c) ==
    LET stage == tokenize(frames[c].source, NoFault) IN
    CompileStage(c, "tokenize", stage, "parse",
                 frames[c] @@ [tokens |-> stage.value])

\* lines 17-18
Parse(c) ==
    LET stage == parse(frames[c].tokens, NoFault) IN
    CompileStage(c, "parse", stage, "generate", frames[c] @@ [ast |-> stage.value])

\* lines 20-23
Generate(c) ==
    LET stage == generate(frames[c].ast, frames[c].contractName, NoFault) IN
    CompileStage(c, "generate", stage, "done",
                 frames[c] @@ [result |->
                                 Returned([success |-> TRUE,
                                           solidity |-> stage.value.solidity,
                                           warnings |-> stage.value.warnings,
                                           error |-> NullText])])

-----------------------------------------------------------------------------
(* One run of generateABI, statement by statement: the recursive scans     *)
(* checkLogUsage, functionHasReturn and functionModifiesState run on a     *)
(* stack of activations, each at position i of its statement list, with    *)
(* the bodies of the statement just visited still to be entered in sub.    *)

NoWalk == [pc |-> "none"]

Activation(body) == [body |-> body, i |-> 1, sub |-> <<>>]

\* a property read `value.type` without the ?. guard
PlainChain(value) ==
    IF value = Null
    THEN Thrown(ErrorValue("TypeError", "Cannot read properties of null"))
    ELSE Returned(value.type)

\* lines 116, 130, 135: stmt.value?.type
OptionalChain(value) ==
    IF value = Null THEN Returned("undefined") ELSE Returned(value.type)

\* lines 200-208, 220-228, 273-280: the bodies a scan enters after a statement
SubBodies(scan, stmt) ==
    IF stmt.type = "FunctionDeclaration" /\ scan = "checkLogUsage" THEN <<stmt.body>>
    ELSE IF stmt.type = "IfStatement"
    THEN <<stmt.consequent>> \o stmt.alternate
         \o [k \in DOMAIN stmt.alternateConditions |-> stmt.alternateConditions[k].body]
    ELSE IF stmt.type \in {"WhileStatement", "ForStatement"} THEN <<stmt.body>>
    ELSE <<>>

\* lines 199, 215-219: the statement that makes a boolean scan return true
Hit(scan, stmt) ==
    IF scan = "functionHasReturn"
    THEN stmt.type = "ReturnStatement" /\ stmt.value # Null
    ELSE \/ stmt.type = "Assignment" \/ stmt.type = "IndexAssignment"
         \/ /\ stmt.type = "ExpressionStatement"
            /\ stmt.expression.type = "CallExpression"
            /\ stmt.expression.callee = "photon_print"

Scanning == walk.pc \in {"checkLogUsage", "functionHasReturn", "functionModifiesState"}

Top == walk.stack[Len(walk.stack)]

\* lines 74-79: the locals, and the call of checkLogUsage on the program body
StartWalk(prog) ==
    [pc |-> "checkLogUsage", program |-> prog, abi |-> <<>>,
     usesLog |-> [str |-> FALSE, int |-> FALSE, bool |-> FALSE],
     stack |-> <<Activation(prog.body)>>, j |-> 1, found |-> FALSE,
     hasReturn |-> FALSE]

\* the loop of a scan takes its next statement
Visit ==
    /\ Scanning
    /\ walk.stack # <<>>
    /\ Top.sub = <<>>
    /\ Top.i <= Len(Top.body)
    /\ LET stmt == Top.body[Top.i]
           n == Len(walk.stack)
       IN  IF walk.pc = "checkLogUsage"
           THEN walk' = [walk EXCEPT
                           !.usesLog = LogFlagsOfCall(stmt, @),
                           !.stack[n].i = @ + 1,
                           !.stack[n].sub = SubBodies(walk.pc, stmt)]
           ELSE IF Hit(walk.pc, stmt)
           THEN walk' = [walk EXCEPT !.found = TRUE, !.stack = <<>>]
           ELSE walk' = [walk EXCEPT
                           !.stack[n].i = @ + 1,
                           !.stack[n].sub = SubBodies(walk.pc, stmt)]
    /\ UNCHANGED <<abiVars, pageVars, frames, page>>

\* the recursive call on a body of the statement just visited
Descend ==
    /\ Scanning
    /\ walk.stack # <<>>
    /\ Top.sub # <<>>
    /\ LET n == Len(walk.stack) IN
       walk' = [walk EXCEPT
                   !.stack = Append([@ EXCEPT ![n].sub = Tail(@)],
                                    Activation(Head(Top.sub)))]
    /\ UNCHANGED <<abiVars, pageVars, frames, page>>

\* the loop of an activation is over: return (false, for a boolean scan)
Return ==
    /\ Scanning
    /\ walk.stack # <<>>
    /\ Top.sub = <<>>
    /\ Top.i > Len(Top.body)
    /\ walk' = [walk EXCEPT !.stack = SubSeq(@, 1, Len(@) - 1)]
    /\ UNCHANGED <<abiVars, pageVars, frames, page>>

\* lines 81-105, after checkLogUsage returned
WalkEvents ==
    /\ walk.pc = "checkLogUsage"
    /\ walk.stack = <<>>
    /\ walk' = [walk EXCEPT !.abi = @ \o EventEntries(walk.usesLog),
                            !.pc = "constructor"]
    /\ UNCHANGED <<abiVars, pageVars, frames, page>>

\* lines 107-125; `some` reads s.value?.type of the let declarations up to the
\* first array literal
WalkConstructor ==
    /\ walk.pc = "constructor"
    /\ LET body == walk.program.body
           lets == {i \in DOMAIN body : body[i].type = "LetDeclaration"}
           read == {i \in lets :
                      \A k \in lets : k < i => body[k].value.type # "ArrayLiteral"}
       IN  IF \E i \in read : OptionalChain(body[i].value).thrown
           THEN walk' = [walk EXCEPT !.pc = "raised"]
           ELSE walk' = [walk EXCEPT
                           !.abi = @ \o (IF hasConstructor(body) \/ hasArrayState(body)
                                         THEN <<ConstructorEntry>> ELSE <<>>),
                           !.pc = "getters", !.j = 1]
    /\ UNCHANGED <<abiVars, pageVars, frames, page>>

\* a getter loop that writes the default annotation into a declaration that
\* has none
WalkGetterFillingAnnotation ==
    /\ walk.pc = "getters"
    /\ LET body == walk.program.body
           stmt == body[walk.j]
       IN  IF walk.j > Len(body)
           THEN walk' = [walk EXCEPT !.pc = "functions", !.j = 1]
           ELSE IF ~IsDeclaration(stmt)
           THEN walk' = [walk EXCEPT !.j = @ + 1]
           ELSE walk' = [walk EXCEPT
                           !.abi = Append(@, GetterEntry(stmt)),
                           !.program.body[walk.j].typeAnnotation =
                               IF @ = NullType THEN "photon_int" ELSE @,
                           !.j = @ + 1]
    /\ UNCHANGED <<abiVars, pageVars, frames, page>>

\* lines 128-153: one turn of the getter loop
WalkGetter ==
    /\ walk.pc = "getters"
    /\ LET body == walk.program.body
           stmt == body[walk.j]
       IN  IF walk.j > Len(body)
           THEN walk' = [walk EXCEPT !.pc = "functions", !.j = 1]
           ELSE IF ~IsDeclaration(stmt)
           THEN walk' = [walk EXCEPT !.j = @ + 1]
           ELSE IF OptionalChain(stmt.value).thrown
           THEN walk' = [walk EXCEPT !.pc = "raised"]
           ELSE walk' = [walk EXCEPT !.abi = Append(@, GetterEntry(stmt)),
                                     !.j = @ + 1]
    /\ UNCHANGED <<abiVars, pageVars, frames, page>>

\* lines 156-162, 165-171: one turn of the function loop, up to the call of
\* functionHasReturn; after the loop, return abi
WalkFunction ==
    /\ walk.pc = "functions"
    /\ LET body == walk.program.body
           stmt == body[walk.j]
       IN  IF walk.j > Len(body)
           THEN walk' = [(walk @@ [result |-> walk.abi]) EXCEPT !.pc = "done"]
           ELSE IF stmt.type # "FunctionDeclaration"
           THEN walk' = [walk EXCEPT !.j = @ + 1]
           ELSE walk' = [walk EXCEPT !.pc = "functionHasReturn", !.found = FALSE,
                                     !.stack = <<Activation(stmt.body)>>]
    /\ UNCHANGED <<abiVars, pageVars, frames, page>>

\* lines 172-194: the entry of the function under way, given the two scan
\* results
WalkEntry(func, hasReturn, modifiesState) ==
    LET inputs == [i \in DOMAIN func.params |->
                      ABIParam(func.params[i].name,
                               toSolType(func.params[i].typeAnnotation))]
        returnType == IF func.returnType # NullType /\ func.returnType # ""
                      THEN toSolType(func.returnType)
                      ELSE inferReturnType(func.body)
    IN  FunctionEntry(func.name, inputs,
                      IF hasReturn THEN <<ABIParam("", returnType)>> ELSE <<>>,
                      IF hasReturn /\ ~modifiesState THEN "view" ELSE "nonpayable")

\* lines 171-190: functionHasReturn returned; functionModifiesState is called
\* only when it returned true
WalkHasReturn ==
    /\ walk.pc = "functionHasReturn"
    /\ walk.stack = <<>>
    /\ LET func == walk.program.body[walk.j] IN
       IF walk.found
       THEN walk' = [walk EXCEPT !.hasReturn = TRUE, !.found = FALSE,
                                 !.pc = "functionModifiesState",
                                 !.stack = <<Activation(func.body)>>]
       ELSE walk' = [walk EXCEPT !.hasReturn = FALSE,
                                 !.abi = Append(@, WalkEntry(func, FALSE, FALSE)),
                                 !.pc = "functions", !.j = @ + 1]
    /\ UNCHANGED <<abiVars, pageVars, frames, page>>

\* lines 190-194, 158: functionModifiesState returned; the entry is pushed
WalkModifiesState ==
    /\ walk.pc = "functionModifiesState"
    /\ walk.stack = <<>>
    /\ LET func == walk.program.body[walk.j] IN
       walk' = [walk EXCEPT !.abi = Append(@, WalkEntry(func, TRUE, walk.found)),
                            !.found = FALSE,
                            !.pc = "functions", !.j = @ + 1]
    /\ UNCHANGED <<abiVars, pageVars, frames, page>>

\* the programs walked: every nest of blocks, every declaration, and the
\* short mixed programs
WalkPrograms ==
    {Program(body) : body \in NestedFunctionPrograms \cup DeepFunctionPrograms
                              \cup DeclarationPrograms \cup SeqsUpTo(TopShapes, 2)}

-----------------------------------------------------------------------------
(* DeployPage: the bytecode step.  handleCompileBytecode starts a Web      *)
(* Worker on the Solidity text in state; the worker's messages and its     *)
(* error event are handled later, each as a step of its own, while the     *)
(* rest of the page stays usable.                                          *)

NoWorker == [stage |-> "none", source |-> <<>>]
NoRun == [pc |-> "none"]

\* the useState initial values of the bytecode, deploy and interact parts
PageState ==
    [compiling |-> FALSE, solcStatus |-> "idle", worker |-> NoWorker,
     selectedChain |-> 0, customRpc |-> "", privateKey |-> "",
     deploying |-> FALSE, deployLog |-> <<>>, deployedContract |-> Null,
     deployRun |-> NoRun, calling |-> NullText, callResults |-> <<>>,
     inFlight |-> <<>>]

\* evm.bytecode.object solc produces for a text: a function of the text
SolcObject(src) == src

\* what solc may answer for a text: output.errors as the list of severities,
\* output.contracts?.["Contract.sol"] as zero or one list of bytecode objects
SolcOutputs(src) ==
    { [errors |-> <<"error">>, contracts |-> <<>>],
      [errors |-> <<>>, contracts |-> << <<SolcObject(src)>> >>],
      [errors |-> <<"warning">>, contracts |-> << <<SolcObject(src)>> >>],
      [errors |-> <<>>, contracts |-> <<>>],
      [errors |-> <<>>, contracts |-> << <<>> >>],
      [errors |-> <<>>, contracts |-> << << <<>> >> >>] }

HasErrors(output) == \E i \in DOMAIN output.errors : output.errors[i] = "error"

\* contracts[contractKey].evm?.bytecode?.object of the first contract, "" if
\* the file, the contract or the object is missing
FirstBytecodeObject(output) ==
    IF Len(output.contracts) = 0 THEN <<>>
    ELSE IF Len(output.contracts[1]) = 0 THEN <<>>
    ELSE output.contracts[1][1]

\* the "Compile Bytecode" button, shown when solidity is set and disabled
\* while compiling; created is whether new Worker(...) succeeds
HandleCompileBytecode(created) ==
    /\ solidity # <<>>
    /\ ~page.compiling
    /\ IF created
       THEN /\ page' = [page EXCEPT !.compiling = TRUE, !.solcStatus = "loading",
                                    !.worker = [stage |-> "posted", source |-> solidity]]
            /\ UNCHANGED compileError
       ELSE /\ page' = [page EXCEPT !.compiling = FALSE, !.solcStatus = "error"]
            /\ compileError' = "Web Worker creation failed. Try pasting bytecode manually."
    /\ UNCHANGED <<abiVars, source, contractName, lastCall, result, solidity, abi,
                   bytecode, warnings, activeTab, frames, walk>>

\* worker.onmessage, type "status": the worker posts one before loading solc
\* and one before compiling
WorkerStatus ==
    /\ page.worker.stage \in {"posted", "loading"}
    /\ page' = [page EXCEPT !.solcStatus = "loading",
                            !.worker.stage = IF @ = "posted" THEN "loading"
                                             ELSE "compiling"]
    /\ UNCHANGED <<abiVars, pageVars, frames, walk>>

\* the solcStatus after worker.onmessage, type "result"
ResultStatus(output) ==
    IF HasErrors(output) THEN "error"
    ELSE IF FirstBytecodeObject(output) # <<>> THEN "ready"
    ELSE page.solcStatus

\* worker.onmessage, type "result"
WorkerResult(output) ==
    /\ page.worker.stage = "compiling"
    /\ IF HasErrors(output)
       THEN /\ compileError' = "Solidity compilation errors"
            /\ UNCHANGED bytecode
       ELSE IF FirstBytecodeObject(output) # <<>>
       THEN /\ bytecode' = <<"0x">> \o FirstBytecodeObject(output)
            /\ compileError' = NullText
       ELSE UNCHANGED <<bytecode, compileError>>
    /\ page' = [page EXCEPT !.solcStatus = ResultStatus(output),
                            !.compiling = FALSE, !.worker = NoWorker]
    /\ UNCHANGED <<abiVars, source, contractName, lastCall, result, solidity, abi,
                   warnings, activeTab, frames, walk>>

\* worker.onmessage, type "error": importScripts or the compilation threw
WorkerError ==
    /\ page.worker.stage \in {"loading", "compiling"}
    /\ compileError' = "Solc worker error"
    /\ page' = [page EXCEPT !.solcStatus = "error", !.compiling = FALSE,
                            !.worker = NoWorker]
    /\ UNCHANGED <<abiVars, source, contractName, lastCall, result, solidity, abi,
                   bytecode, warnings, activeTab, frames, walk>>

\* worker.onerror: the worker script failed
WorkerOnError ==
    /\ page.worker.stage # "none"
    /\ compileError' = "Failed to load Solidity compiler. You can paste bytecode manually."
    /\ page' = [page EXCEPT !.solcStatus = "error", !.compiling = FALSE,
                            !.worker = NoWorker]
    /\ UNCHANGED <<abiVars, source, contractName, lastCall, result, solidity, abi,
                   bytecode, warnings, activeTab, frames, walk>>

-----------------------------------------------------------------------------
(* DeployPage: deployment.  handleDeploy is an async function: the part up *)
(* to its first await runs in the click, and each awaited promise settles  *)
(* in a later step.  A run keeps what it closed over (chain, abi, name).   *)

\* CHAINS[i].rpc for the first entry and for the last one, "Custom RPC"
ChainIndexes == {0, 6}
ChainRpc(i) == IF i = 6 THEN "" ELSE "https://ethereum-sepolia-rpc.publicnode.com"
ChainName(i) == IF i = 6 THEN "Custom RPC" ELSE "Sepolia Testnet"

\* chain.rpc || customRpc
RpcOf(p) == IF ChainRpc(p.selectedChain) # "" THEN ChainRpc(p.selectedChain)
            ELSE p.customRpc

\* what is typed into the key field: nothing, a key, a text that is no key
PrivateKeys == {"", "0xkey", "not a key"}
CustomRpcs == {"", "https://rpc"}

\* new Wallet(privateKey, provider) throws on a text that is no key
WalletThrows(key) == key = "not a key"

\* the ABI and bytecode the page holds once the opening example went through
\* both compile steps
CompiledSolidity == generate(parse(tokenize(CounterExample, NoFault).value, NoFault).value,
                             "LuxbinContract", NoFault).value.solidity
CompiledAbi == generateABI(parse(tokenize(CounterExample, NoFault).value, NoFault).value)
CompiledBytecode == <<"0x">> \o SolcObject(CompiledSolidity)

\* abi.length of a value that may be undefined
HasEntries(list) == IF list = Undefined THEN FALSE ELSE Len(list) > 0

\* disabled={!bytecode || !abi.length || !privateKey || deploying}
DeployEnabled ==
    /\ bytecode # <<>>
    /\ HasEntries(abi)
    /\ page.privateKey # ""
    /\ ~page.deploying

Log(p, msgs) == [p EXCEPT !.deployLog = @ \o msgs]

\* a handleDeploy whose finally block is missing
DeployFinallyMissing(p) == [p EXCEPT !.deployRun = NoRun]

\* finally { setDeploying(false) }, the end of every run that entered the try
DeployFinally(p) == [p EXCEPT !.deploying = FALSE, !.deployRun = NoRun]

\* catch (e) { log(`ERROR: ...`) } followed by the finally block
DeployCatch(p) == DeployFinally(Log(p, <<"ERROR: Deployment failed">>))

\* the input fields of the chain configuration
SetSelectedChain(i) ==
    /\ page' = [page EXCEPT !.selectedChain = i]
    /\ UNCHANGED <<abiVars, pageVars, frames, walk>>

SetCustomRpc(url) ==
    /\ ChainName(page.selectedChain) = "Custom RPC"
    /\ page' = [page EXCEPT !.customRpc = url]
    /\ UNCHANGED <<abiVars, pageVars, frames, walk>>

SetPrivateKey(key) ==
    /\ page' = [page EXCEPT !.privateKey = key]
    /\ UNCHANGED <<abiVars, pageVars, frames, walk>>

\* the deploy button: handleDeploy up to its first await
HandleDeploy ==
    LET started == Log([page EXCEPT !.deploying = TRUE, !.deployLog = <<>>],
                       <<"Connecting", "Setting up wallet...">>)
    IN
    /\ DeployEnabled
    /\ page' =
         IF RpcOf(page) = ""
         THEN [page EXCEPT !.deployLog = <<"Error: No RPC URL configured">>]
         ELSE IF WalletThrows(page.privateKey) THEN DeployCatch(started)
         ELSE [Log(started, <<"Deployer">>) EXCEPT
                  !.deployRun = [pc |-> "getBalance", abi |-> abi,
                                 name |-> contractName,
                                 chainName |-> ChainName(page.selectedChain)]]
    /\ UNCHANGED <<abiVars, pageVars, frames, walk>>

\* await provider.getBalance(wallet.address) settles
GetBalanceSettles(outcome) ==
    /\ page.deployRun.pc = "getBalance"
    /\ page' =
         CASE outcome = "rejected" -> DeployCatch(page)
           [] outcome = "zero" ->
                DeployFinally([Log(page, <<"Balance", "ERROR: Wallet has no funds for gas">>)
                                 EXCEPT !.deploying = FALSE])
           [] outcome = "funds" ->
                [Log(page, <<"Balance", "Creating contract factory...",
                             "Deploying contract...">>)
                   EXCEPT !.deployRun.pc = "deploy"]
    /\ UNCHANGED <<abiVars, pageVars, frames, walk>>

\* await factory.deploy() settles
DeploySettles(fulfilled) ==
    /\ page.deployRun.pc = "deploy"
    /\ page' = IF fulfilled
               THEN [Log(page, <<"Transaction sent", "Waiting for confirmation...">>)
                       EXCEPT !.deployRun.pc = "waitForDeployment"]
               ELSE DeployCatch(page)
    /\ UNCHANGED <<abiVars, pageVars, frames, walk>>

\* await contract.waitForDeployment() settles
WaitForDeploymentSettles(fulfilled) ==
    /\ page.deployRun.pc = "waitForDeployment"
    /\ page' = IF fulfilled THEN [page EXCEPT !.deployRun.pc = "getAddress"]
               ELSE DeployCatch(page)
    /\ UNCHANGED <<abiVars, pageVars, frames, walk>>

\* await contract.getAddress() settles; on success the rest of the try block
GetAddressSettles(fulfilled) ==
    /\ page.deployRun.pc = "getAddress"
    /\ IF fulfilled
       THEN /\ page' = DeployFinally(
                         [Log(page, <<"Contract deployed", "Deployment successful!">>)
                            EXCEPT !.deployedContract =
                                      [address |-> "0xC0", abi |-> page.deployRun.abi,
                                       name |-> page.deployRun.name,
                                       chainName |-> page.deployRun.chainName]])
            /\ activeTab' = "interact"
       ELSE /\ page' = DeployCatch(page)
            /\ UNCHANGED activeTab
    /\ UNCHANGED <<abiVars, source, contractName, lastCall, result, solidity, abi,
                   bytecode, warnings, compileError, frames, walk>>

\* the awaited promises of a run
BalanceOutcomes == {"zero", "funds", "rejected"}

DeployRunSettles ==
    \/ \E outcome \in BalanceOutcomes : GetBalanceSettles(outcome)
    \/ \E fulfilled \in BOOLEAN : DeploySettles(fulfilled)
    \/ \E fulfilled \in BOOLEAN : WaitForDeploymentSettles(fulfilled)
    \/ \E fulfilled \in BOOLEAN : GetAddressSettles(fulfilled)

-----------------------------------------------------------------------------
(* DeployPage: calls of the deployed contract.  handleCall is an async     *)
(* function too; the calls awaiting the network are kept in inFlight, in   *)
(* the order they were started.                                            *)

\* the function cards of the interact tab
CallableFunctions ==
    IF page.deployedContract = Null THEN {}
    ELSE {page.deployedContract.abi[i] : i \in
             {j \in DOMAIN page.deployedContract.abi :
                 page.deployedContract.abi[j].type = "function"}}

IsRead(func) == func.stateMutability \in {"view", "pure"}

CallResult(name, failed) == [funcName |-> name, error |-> failed]

\* setCallResults(prev => [entry, ...prev]) followed by finally { setCalling(null) }
CallEnds(p, name, failed) ==
    [p EXCEPT !.callResults = <<CallResult(name, failed)>> \o @,
              !.calling = NullText]

Without(list, i) == SubSeq(list, 1, i - 1) \o SubSeq(list, i + 1, Len(list))

\* a function card's button, disabled={calling === func.name}: handleCall up
\* to its first await
HandleCall(func) ==
    /\ page.deployedContract # Null
    /\ page.privateKey # ""
    /\ page.calling # func.name
    /\ Len(page.callResults) + Len(page.inFlight) < MaxStarted
    /\ page' =
         IF WalletThrows(page.privateKey)
         THEN CallEnds([page EXCEPT !.calling = func.name], func.name, TRUE)
         ELSE [page EXCEPT !.calling = func.name,
                           !.inFlight = Append(@, [funcName |-> func.name,
                                                   pc |-> IF IsRead(func) THEN "call"
                                                          ELSE "send"])]
    /\ UNCHANGED <<abiVars, pageVars, frames, walk>>

\* an awaited promise of the i-th call in flight settles: the call of a read
\* function, or the sending of a transaction and then tx.wait()
CallSettles(i, fulfilled) ==
    LET call == page.inFlight[i]
        rest == [page EXCEPT !.inFlight = Without(@, i)]
    IN
    /\ i \in DOMAIN page.inFlight
    /\ page' = IF ~fulfilled THEN CallEnds(rest, call.funcName, TRUE)
               ELSE IF call.pc = "send" THEN [page EXCEPT !.inFlight[i].pc = "wait"]
               ELSE CallEnds(rest, call.funcName, FALSE)
    /\ UNCHANGED <<abiVars, pageVars, frames, walk>>

\* the page once the run of handleDeploy has deployed the contract
DeployedPage ==
    [PageState EXCEPT
        !.solcStatus = "ready",
        !.privateKey = "0xkey",
        !.deployLog = <<"Connecting", "Setting up wallet...", "Deployer", "Balance",
                        "Creating contract factory...", "Deploying contract...",
                        "Transaction sent", "Waiting for confirmation...",
                        "Contract deployed", "Deployment successful!">>,
        !.deployedContract = [address |-> "0xC0", abi |-> CompiledAbi,
                              name |-> "LuxbinContract",
                              chainName |-> "Sepolia Testnet"]]

-----------------------------------------------------------------------------
(* Specifications. *)

PageInit ==
    /\ source = CounterExample
    /\ lastCall = NoCall
    /\ result = NotCalled
    /\ solidity = <<>>
    /\ abi = <<>>
    /\ bytecode = <<>>
    /\ warnings = <<>>
    /\ compileError = NullText
    /\ activeTab = "write"

\* the pages, compiling what is typed
Init ==
    /\ program = [type |-> "Program", body |-> <<>>]
    /\ abiResult = NotGenerated
    /\ contractName = "LuxbinContract"
    /\ PageInit
    /\ frames = NoCalls
    /\ walk = NoWalk
    /\ page = PageState

Next ==
    \/ ClearSource
    \/ \E line \in SourceLines : EditSource(line)
    \/ \E fault \in InternalFaults : HandleCompileLuxbin(fault)

Spec == Init /\ [][Next]_vars

\* generateABI applied once to each program of Programs
InitABI ==
    /\ program \in Programs
    /\ abiResult = NotGenerated
    /\ contractName = "LuxbinContract"
    /\ PageInit
    /\ frames = NoCalls
    /\ walk = NoWalk
    /\ page = PageState

NextABI == GenerateABI

SpecABI == InitABI /\ [][NextABI]_vars

\* invocations of generateABI and compile, interleaved
NextCalls ==
    \E c \in Calls :
        \/ \E prog \in CallPrograms : CallGenerateABI(c, prog)
        \/ ScanLogUsage(c)
        \/ PushEvents(c)
        \/ PushEntriesAndReturn(c)
        \/ \E src \in CallSources, name \in CallContractNames : CallCompile(c, src, name)
        \/ Tokenize(c)
        \/ Parse(c)
        \/ Generate(c)

SpecCalls == Init /\ [][NextCalls]_vars

\* generateABI run statement by statement on each program of WalkPrograms
InitWalk ==
    /\ program = [type |-> "Program", body |-> <<>>]
    /\ abiResult = NotGenerated
    /\ contractName = "LuxbinContract"
    /\ PageInit
    /\ frames = NoCalls
    /\ page = PageState
    /\ \E prog \in WalkPrograms : walk = StartWalk(prog)

NextWalk ==
    \/ Visit
    \/ Descend
    \/ Return
    \/ WalkEvents
    \/ WalkConstructor
    \/ WalkGetter
    \/ WalkFunction
    \/ WalkHasReturn
    \/ WalkModifiesState

\* JavaScript runs a call to completion: an enabled step is taken
SpecWalk == InitWalk /\ [][NextWalk]_vars /\ WF_vars(NextWalk)

\* the deploy page: LUXBIN compiles and bytecode compilations
NextBytecode ==
    \/ ClearSource
    \/ \E fault \in InternalFaults : HandleCompileLuxbin(fault)
    \/ \E created \in BOOLEAN : HandleCompileBytecode(created)
    \/ WorkerStatus
    \/ \E output \in SolcOutputs(page.worker.source) : WorkerResult(output)
    \/ WorkerError
    \/ WorkerOnError

SpecBytecode == Init /\ [][NextBytecode]_vars

\* the deploy tab of a page that holds a compiled contract; every awaited
\* promise settles
InitDeploy ==
    /\ program = [type |-> "Program", body |-> <<>>]
    /\ abiResult = NotGenerated
    /\ contractName = "LuxbinContract"
    /\ source = CounterExample
    /\ lastCall = NoCall
    /\ result = NotCalled
    /\ solidity = CompiledSolidity
    /\ abi = CompiledAbi
    /\ bytecode = CompiledBytecode
    /\ warnings = <<>>
    /\ compileError = NullText
    /\ activeTab = "deploy"
    /\ frames = NoCalls
    /\ walk = NoWalk
    /\ page = [PageState EXCEPT !.solcStatus = "ready"]

NextDeploy ==
    \/ \E i \in ChainIndexes : SetSelectedChain(i)
    \/ \E url \in CustomRpcs : SetCustomRpc(url)
    \/ \E key \in PrivateKeys : SetPrivateKey(key)
    \/ HandleDeploy
    \/ DeployRunSettles

SpecDeploy == InitDeploy /\ [][NextDeploy]_vars /\ WF_vars(DeployRunSettles)

\* the interact tab after a deployment
InitInteract ==
    /\ program = [type |-> "Program", body |-> <<>>]
    /\ abiResult = NotGenerated
    /\ contractName = "LuxbinContract"
    /\ source = CounterExample
    /\ lastCall = NoCall
    /\ result = NotCalled
    /\ solidity = CompiledSolidity
    /\ abi = CompiledAbi
    /\ bytecode = CompiledBytecode
    /\ warnings = <<>>
    /\ compileError = NullText
    /\ activeTab = "interact"
    /\ frames = NoCalls
    /\ walk = NoWalk
    /\ page = DeployedPage

NextInteract ==
    \/ \E key \in PrivateKeys : SetPrivateKey(key)
    \/ \E func \in CallableFunctions : HandleCall(func)
    \/ \E i \in 1..MaxStarted, fulfilled \in BOOLEAN : CallSettles(i, fulfilled)

SpecInteract == InitInteract /\ [][NextInteract]_vars

-----------------------------------------------------------------------------
(* Properties of the compile facade (checked under Spec). *)

Called == lastCall # NoCall

\* what the pipeline of the last call raised, stage by stage
LastTokens == tokenize(lastCall.source, lastCall.fault)
LastAst == parse(LastTokens.value, lastCall.fault)
LastGenerated == generate(LastAst.value, lastCall.contractName, lastCall.fault)
PipelineThrew ==
    \/ LastTokens.thrown
    \/ ~LastTokens.thrown /\ LastAst.thrown
    \/ ~LastTokens.thrown /\ ~LastAst.thrown /\ LastGenerated.thrown
PipelineError ==
    IF LastTokens.thrown THEN LastTokens.error
    ELSE IF LastAst.thrown THEN LastAst.error ELSE LastGenerated.error

\* C1: whenever compile returns success = true, error is null and the result
\* carries the solidity text and an abi field holding the list generateABI
\* yields for the parsed program.
C1_SuccessCarriesSolidityAndAbi ==
    (Called /\ ~result.thrown /\ result.value.success) =>
        /\ result.value.error = NullText
        /\ result.value.solidity # <<>>
        /\ Get(result.value, "abi") = generateABI(LastAst.value)

\* C2: whenever a stage raises a fault, the result is success = false with
\* solidity, abi and warnings empty and a non-null error; no result mixes a
\* non-null error with non-empty solidity, abi or warnings; success = true
\* exactly when error = null.
C2_FailureResultIsEmpty ==
    (Called /\ ~result.thrown) =>
        LET r == result.value IN
        /\ PipelineThrew =>
              /\ r.success = FALSE
              /\ r.solidity = <<>>
              /\ Get(r, "abi") = <<>>
              /\ r.warnings = <<>>
              /\ r.error # NullText
        /\ r.error # NullText =>
              /\ r.solidity = <<>>
              /\ Get(r, "abi") \in {<<>>, Undefined}
              /\ r.warnings = <<>>
        /\ r.success <=> r.error = NullText

\* C3: compile never lets a fault escape: whatever a stage raises, compile
\* returns a result whose error is the Error's message, or the fixed fallback
\* message when the raised value is no Error.
C3_NoFaultEscapes ==
    Called =>
        /\ ~result.thrown
        /\ PipelineThrew =>
              /\ result.value.error # NullText
              /\ result.value.error =
                    IF PipelineError.isError THEN PipelineError.message
                    ELSE "Unknown compilation error"

\* a parser defect raising a non-Error value was turned into the fallback message
C3_Witness ==
    /\ Called
    /\ lastCall.fault.stage = "parse"
    /\ ~PipelineError.isError
    /\ ~result.thrown
    /\ result.value.error = "Unknown compilation error"

-----------------------------------------------------------------------------
(* Properties of generateABI (checked under SpecABI). *)

Generated == abiResult # NotGenerated

\* every statement of a statement list, at any depth of if / else-if / else /
\* while / for bodies, and of function bodies too when intoFunctions
RECURSIVE StatementsIn(_, _)
StatementsIn(body, intoFunctions) ==
    UNION {
        LET stmt == body[i] IN
        {stmt}
        \cup (IF stmt.type = "IfStatement"
              THEN StatementsIn(stmt.consequent, intoFunctions)
                   \cup UNION {StatementsIn(stmt.alternate[j], intoFunctions) :
                                 j \in DOMAIN stmt.alternate}
                   \cup UNION {StatementsIn(stmt.alternateConditions[j].body,
                                            intoFunctions) :
                                 j \in DOMAIN stmt.alternateConditions}
              ELSE {})
        \cup (IF stmt.type \in {"WhileStatement", "ForStatement"}
              THEN StatementsIn(stmt.body, intoFunctions) ELSE {})
        \cup (IF stmt.type = "FunctionDeclaration" /\ intoFunctions
              THEN StatementsIn(stmt.body, intoFunctions) ELSE {})
        : i \in DOMAIN body}

\* the expressions a statement holds
ExpressionsOf(stmt) ==
    IF stmt.type \in {"LetDeclaration", "ConstDeclaration", "ReturnStatement",
                      "Assignment", "IndexAssignment"}
    THEN {stmt.value}
    ELSE IF stmt.type = "ExpressionStatement" THEN {stmt.expression} ELSE {}

\* the photon_print frames inside an expression, the expression itself included
RECURSIVE PrintCallsIn(_)
PrintCallsIn(expr) ==
    IF expr.type # "CallExpression" THEN {}
    ELSE (IF expr.callee = "photon_print" THEN {expr} ELSE {})
         \cup UNION {PrintCallsIn(expr.arguments[k]) : k \in DOMAIN expr.arguments}

PrintCallsOf(stmts) ==
    UNION {UNION {PrintCallsIn(e) : e \in ExpressionsOf(stmt)} : stmt \in stmts}

TopLevel(types) ==
    SelectSeq(program.body, LAMBDA stmt : stmt.type \in types)
TopDeclarations == TopLevel({"LetDeclaration", "ConstDeclaration"})
TopFunctions == TopLevel({"FunctionDeclaration"})

\* the function entries of the generated list that carry a name
EntriesNamed(name) ==
    {abiResult[k] : k \in {j \in DOMAIN abiResult :
                              abiResult[j].type = "function" /\ abiResult[j].name = name}}

IsStateChange(stmt) ==
    \/ stmt.type \in {"Assignment", "IndexAssignment"}
    \/ /\ stmt.type = "ExpressionStatement"
       /\ stmt.expression.type = "CallExpression"
       /\ stmt.expression.callee = "photon_print"

\* the mutability the entries of every top-level function must have
MutabilityIs(expected(_)) ==
    Generated =>
        \A i \in DOMAIN TopFunctions :
            LET func == TopFunctions[i] IN
            /\ EntriesNamed(func.name) # {}
            /\ \A e \in EntriesNamed(func.name) : e.stateMutability = expected(func)

\* C4 (as claimed): a function is "view" if and only if its body holds a
\* return statement and no Assignment, IndexAssignment or photon_print call
\* statement at any nesting depth; every other function is "nonpayable".
C4_ViewIffAnyReturn ==
    MutabilityIs(LAMBDA func :
        LET stmts == StatementsIn(func.body, FALSE) IN
        IF /\ \E st \in stmts : st.type = "ReturnStatement"
           /\ \A st \in stmts : ~IsStateChange(st)
        THEN "view" ELSE "nonpayable")

\* C4 (amended): a function is "view" if and only if its body holds a return
\* statement that returns a value and no Assignment, IndexAssignment or
\* photon_print call statement at any nesting depth; every other function is
\* "nonpayable".
C4_ViewIffValueReturn ==
    MutabilityIs(LAMBDA func :
        LET stmts == StatementsIn(func.body, FALSE) IN
        IF /\ \E st \in stmts : st.type = "ReturnStatement" /\ st.value # Null
           /\ \A st \in stmts : ~IsStateChange(st)
        THEN "view" ELSE "nonpayable")

\* a function whose only return sits two blocks deep (in a for body inside an
\* else-if clause) was classified "view"
C4_Witness ==
    /\ Generated
    /\ Len(program.body) = 1
    /\ program.body[1].type = "FunctionDeclaration"
    /\ program.body[1].body =
          <<Block("elseif", <<Block("for", <<ReturnStatement(StringLiteral)>>)>>)>>
    /\ abiResult[1].stateMutability = "view"

\* C5: every function that returns a value and frames photon_print anywhere in
\* its body, in a statement of its own, in a nested block or inside an
\* expression, is "nonpayable".
C5_LoggingFunctionIsNonpayable ==
    Generated =>
        \A i \in DOMAIN TopFunctions :
            LET func == TopFunctions[i]
                stmts == StatementsIn(func.body, FALSE)
            IN  (/\ \E st \in stmts : st.type = "ReturnStatement" /\ st.value # Null
                 /\ PrintCallsOf(stmts) # {})
                => /\ EntriesNamed(func.name) # {}
                   /\ \A e \in EntriesNamed(func.name) :
                         e.stateMutability = "nonpayable"

IsArrayTyped(stmt) ==
    stmt.value.type = "ArrayLiteral" \/ stmt.typeAnnotation = "photon_array"

\* C6: there is exactly one constructor entry, without inputs, if and only if
\* the program has a top-level statement that is no let, const or function
\* declaration, or an array-typed top-level let or const; otherwise none.
C6_ConstructorIffNeeded ==
    Generated =>
        LET constructors == SelectSeq(abiResult, LAMBDA e : e.type = "constructor")
            needed ==
                \/ \E i \in DOMAIN program.body :
                      program.body[i].type \notin
                          {"LetDeclaration", "ConstDeclaration", "FunctionDeclaration"}
                \/ \E i \in DOMAIN TopDeclarations : IsArrayTyped(TopDeclarations[i])
        IN  IF needed
            THEN Len(constructors) = 1 /\ constructors[1].inputs = <<>>
            ELSE Len(constructors) = 0

\* C7: the function entries of the list are one "view" getter per top-level
\* let / const, carrying its name, followed by one entry per top-level
\* function: nothing else (a local, a parameter, a loop variable) gets one.
C7_OneGetterPerDeclaration ==
    Generated =>
        LET entries == SelectSeq(abiResult, LAMBDA e : e.type = "function") IN
        /\ Len(entries) = Len(TopDeclarations) + Len(TopFunctions)
        /\ \A i \in DOMAIN TopDeclarations :
              /\ entries[i].name = TopDeclarations[i].name
              /\ entries[i].stateMutability = "view"
        /\ \A i \in DOMAIN TopFunctions :
              entries[Len(TopDeclarations) + i].name = TopFunctions[i].name

\* a let, a const and a function with a parameter, a local and a loop: two
\* getters and one function entry
C7_Witness ==
    /\ Generated
    /\ Len(TopDeclarations) = 2
    /\ TopDeclarations[1].type = "LetDeclaration"
    /\ TopDeclarations[2].type = "ConstDeclaration"
    /\ Len(TopFunctions) = 1
    /\ TopFunctions[1].params # <<>>
    /\ \E st \in StatementsIn(TopFunctions[1].body, FALSE) : st.type = "LetDeclaration"
    /\ \E st \in StatementsIn(TopFunctions[1].body, FALSE) : st.type = "ForStatement"
    /\ Len(SelectSeq(abiResult, LAMBDA e : e.type = "function")) = 3

\* C8: a scalar top-level declaration has a getter with no inputs and one
\* output; an array-typed one (by array literal or by photon_array annotation)
\* has a getter with one uint256 input and one int256 output.
C8_GetterShape ==
    Generated =>
        \A i \in DOMAIN TopDeclarations :
            LET decl == TopDeclarations[i] IN
            /\ EntriesNamed(decl.name) # {}
            /\ \A e \in EntriesNamed(decl.name) :
                  IF IsArrayTyped(decl)
                  THEN /\ Len(e.inputs) = 1 /\ e.inputs[1].type = "uint256"
                       /\ Len(e.outputs) = 1 /\ e.outputs[1].type = "int256"
                  ELSE e.inputs = <<>> /\ Len(e.outputs) = 1

\* the target type of a declaration's storage variable (codegen.ts, 4.3): the
\* mapped annotation, or else the type of the initializer
storageType(stmt) ==
    IF stmt.typeAnnotation # NullType /\ stmt.typeAnnotation # ""
    THEN toSolType(stmt.typeAnnotation)
    ELSE IF stmt.value = Null THEN "int256" ELSE inferExprType(stmt.value)

\* C9: the getter of a scalar top-level declaration has the target type of the
\* declaration as its output type, whether that type comes from the annotation
\* or from the initializer.
C9_GetterTypeIsStorageType ==
    Generated =>
        \A i \in DOMAIN TopDeclarations :
            LET decl == TopDeclarations[i] IN
            ~IsArrayTyped(decl) =>
                \A e \in EntriesNamed(decl.name) :
                    Len(e.outputs) = 1 /\ e.outputs[1].type = storageType(decl)

\* the event a photon_print call logs through
EventOf(call) ==
    IF call.arguments[1].type = "StringLiteral" THEN "Log"
    ELSE IF call.arguments[1].type = "BooleanLiteral" THEN "LogBool" ELSE "LogInt"

\* C10: the ABI has the event entry of a logging variant if and only if some
\* photon_print call of that variant occurs in the program, at top level, in a
\* function body or in a nested block, and in any syntactic position.
C10_EventIffVariantUsed ==
    Generated =>
        LET calls == {c \in PrintCallsOf(StatementsIn(program.body, TRUE)) :
                         c.arguments # <<>>}
        IN  \A name \in {"Log", "LogInt", "LogBool"} :
                (\E k \in DOMAIN abiResult :
                    abiResult[k].type = "event" /\ abiResult[k].name = name)
                <=> (\E c \in calls : EventOf(c) = name)

\* the event entries of the generated list that carry a name
EventsNamed(name) ==
    {k \in DOMAIN abiResult :
        abiResult[k].type = "event" /\ abiResult[k].name = name}

\* C11: the ABI holds at most one Log, one LogInt and one LogBool event entry,
\* however many call sites use the variant and wherever they are.
C11_AtMostOneEventPerVariant ==
    Generated =>
        \A name \in {"Log", "LogInt", "LogBool"} : Cardinality(EventsNamed(name)) <= 1

\* three top-level statements logging a string, and one Log entry
C11_Witness ==
    /\ Generated
    /\ Len(program.body) = 3
    /\ \A i \in 1..3 : program.body[i] = ExpressionStatement(PrintCall(<<StringLiteral>>))
    /\ Cardinality(EventsNamed("Log")) = 1

\* the fixed table of target types (4.3); an absent annotation is int256
MappedType(annotation) ==
    CASE annotation = "photon_int" -> "int256"
      [] annotation = "photon_float" -> "int256"
      [] annotation = "photon_string" -> "string"
      [] annotation = "photon_bool" -> "bool"
      [] annotation = "photon_array" -> "int256[]"
      [] annotation = "qubit" -> "uint256"
      [] annotation = NullType -> "int256"

InTable(annotation) ==
    annotation \in {"photon_int", "photon_float", "photon_string", "photon_bool",
                    "photon_array", "qubit"}

\* the positions of the function entries of the generated list that carry a name
PositionsNamed(name) ==
    {k \in DOMAIN abiResult :
        abiResult[k].type = "function" /\ abiResult[k].name = name}

\* C12: each top-level FunctionDeclaration has exactly one function entry,
\* named after it, whose inputs are its parameters in parameter order, each
\* with its name and the mapped target type of its annotation.
C12_OneEntryPerFunctionWithInputs ==
    Generated =>
        \A i \in DOMAIN TopFunctions :
            LET func == TopFunctions[i] IN
            /\ Cardinality(PositionsNamed(func.name)) = 1
            /\ \A e \in EntriesNamed(func.name) :
                  /\ Len(e.inputs) = Len(func.params)
                  /\ \A j \in DOMAIN func.params :
                        /\ e.inputs[j].name = func.params[j].name
                        /\ (InTable(func.params[j].typeAnnotation)
                             \/ func.params[j].typeAnnotation = NullType)
                            => e.inputs[j].type = MappedType(func.params[j].typeAnnotation)

\* a function (p: qubit, q: photon_bool) has the inputs (uint256, bool), in
\* that order
C12_Witness ==
    /\ Generated
    /\ Len(TopFunctions) = 1
    /\ TopFunctions[1].params = <<Param("p", "qubit"), Param("q", "photon_bool")>>
    /\ \E e \in EntriesNamed(TopFunctions[1].name) :
          e.inputs = <<ABIParam("p", "uint256"), ABIParam("q", "bool")>>

\* a function is classified as having a return when a return statement with a
\* value sits anywhere in its body
ReturnsValue(func) ==
    \E st \in StatementsIn(func.body, FALSE) :
        st.type = "ReturnStatement" /\ st.value # Null

\* C13: a function entry has exactly one output if the function is classified
\* as having a return, and no outputs otherwise; a function with no return
\* statement is "nonpayable" with its parameters as inputs and no outputs,
\* even when it declares a return type.
C13_OutputsIffReturn ==
    Generated =>
        \A i \in DOMAIN TopFunctions :
            LET func == TopFunctions[i] IN
            /\ EntriesNamed(func.name) # {}
            /\ \A e \in EntriesNamed(func.name) :
                  /\ Len(e.outputs) = IF ReturnsValue(func) THEN 1 ELSE 0
                  /\ (\A st \in StatementsIn(func.body, FALSE) :
                          st.type # "ReturnStatement")
                     => /\ e.stateMutability = "nonpayable"
                        /\ Len(e.inputs) = Len(func.params)
                        /\ e.outputs = <<>>

\* a function declared `: photon_int` that only assigns has no outputs
C13_Witness ==
    /\ Generated
    /\ Len(TopFunctions) = 1
    /\ TopFunctions[1].returnType = "photon_int"
    /\ TopFunctions[1].body = <<Assignment>>
    /\ \E e \in EntriesNamed(TopFunctions[1].name) :
          e.outputs = <<>> /\ e.stateMutability = "nonpayable"

\* C14: every entry that carries a stateMutability has "view" or
\* "nonpayable"; "pure" and "payable" are never produced.
C14_ViewOrNonpayableOnly ==
    Generated =>
        \A k \in DOMAIN abiResult :
            "stateMutability" \in DOMAIN abiResult[k]
                => abiResult[k].stateMutability \in {"view", "nonpayable"}

\* a list with a constructor, a getter and a read-only function whose body is
\* one return of a literal
C14_Witness ==
    /\ Generated
    /\ \E k \in DOMAIN abiResult : abiResult[k].type = "constructor"
    /\ Len(TopDeclarations) > 0
    /\ \E i \in DOMAIN TopFunctions :
          /\ TopFunctions[i].body = <<ReturnStatement(Identifier)>>
          /\ \E e \in EntriesNamed(TopFunctions[i].name) : e.stateMutability = "view"

\* C15: a function with a return type annotation that returns a value has one
\* output of the annotation's mapped type, whatever the returned expression
\* is; annotated photon_int with the body `return count` it is "view" with one
\* int256 output.
C15_AnnotatedReturnType ==
    Generated =>
        \A i \in DOMAIN TopFunctions :
            LET func == TopFunctions[i] IN
            (InTable(func.returnType) /\ ReturnsValue(func)) =>
                /\ EntriesNamed(func.name) # {}
                /\ \A e \in EntriesNamed(func.name) :
                      /\ Len(e.outputs) = 1
                      /\ e.outputs[1].type = MappedType(func.returnType)
                      /\ (func.returnType = "photon_int"
                           /\ func.body = <<ReturnStatement(Identifier)>>)
                          => /\ e.stateMutability = "view"
                             /\ e.outputs = <<ABIParam("", "int256")>>

\* a function declared `: photon_string` returning a number literal has a
\* string output
C15_Witness ==
    /\ Generated
    /\ Len(TopFunctions) = 1
    /\ TopFunctions[1].returnType = "photon_string"
    /\ TopFunctions[1].body = <<ReturnStatement(NumberLiteral)>>
    /\ \E e \in EntriesNamed(TopFunctions[1].name) :
          e.outputs = <<ABIParam("", "string")>>

\* the first return statement with a value met when a body is walked in
\* declaration order, entering if, else-if, else, while and for bodies; Null
\* when there is none
RECURSIVE FirstReturn(_)
FirstReturn(body) ==
    IF body = <<>> THEN Null
    ELSE LET stmt == Head(body)
             inner ==
                 IF stmt.type = "ReturnStatement" /\ stmt.value # Null THEN stmt
                 ELSE IF stmt.type = "IfStatement"
                 THEN LET blocks == <<stmt.consequent>>
                                    \o [j \in DOMAIN stmt.alternateConditions |->
                                          stmt.alternateConditions[j].body]
                                    \o stmt.alternate
                          found == {j \in DOMAIN blocks : FirstReturn(blocks[j]) # Null}
                      IN  IF found = {} THEN Null
                          ELSE FirstReturn(blocks[CHOOSE j \in found :
                                                     \A k \in found : j <= k])
                 ELSE IF stmt.type \in {"WhileStatement", "ForStatement"}
                 THEN FirstReturn(stmt.body)
                 ELSE Null
         IN  IF inner # Null THEN inner ELSE FirstReturn(Tail(body))

\* C19: the output type of a function without return type annotation is the
\* type of the first `return <expr>` of its body in walk order, also when that
\* return sits inside a nested block.
C19_FirstReturnDecidesType ==
    Generated =>
        \A i \in DOMAIN TopFunctions :
            LET func == TopFunctions[i] IN
            (func.returnType = NullType /\ FirstReturn(func.body) # Null) =>
                /\ EntriesNamed(func.name) # {}
                /\ \A e \in EntriesNamed(func.name) :
                      /\ Len(e.outputs) = 1
                      /\ e.outputs[1].type = inferExprType(FirstReturn(func.body).value)

IsBooleanOperator(expr) ==
    \/ /\ expr.type = "BinaryExpression"
       /\ expr.operator \in {"<", ">", "<=", ">=", "==", "!=", "and", "or"}
    \/ expr.type = "UnaryExpression" /\ expr.operator = "not"

\* the output type of every unannotated function whose body is `return <expr>`
\* follows the typing rule
ReturnTypeIs(rule(_)) ==
    Generated =>
        \A i \in DOMAIN TopFunctions :
            LET func == TopFunctions[i] IN
            (/\ func.returnType = NullType
             /\ Len(func.body) = 1
             /\ func.body[1].type = "ReturnStatement"
             /\ func.body[1].value # Null) =>
                /\ EntriesNamed(func.name) # {}
                /\ \A e \in EntriesNamed(func.name) :
                      e.outputs = <<ABIParam("", rule(func.body[1].value))>>

\* C20 (as claimed): a string literal is string, a boolean literal is bool, a
\* comparison, equality or and / or / not expression is bool, and every other
\* expression, an array literal too, is int256.
C20_ExprTypeRules ==
    ReturnTypeIs(LAMBDA expr :
        IF expr.type = "StringLiteral" THEN "string"
        ELSE IF expr.type = "BooleanLiteral" \/ IsBooleanOperator(expr) THEN "bool"
        ELSE "int256")

\* C20 (amended): as above, but an array literal is int256[].
C20_ExprTypeRulesWithArray ==
    ReturnTypeIs(LAMBDA expr :
        IF expr.type = "StringLiteral" THEN "string"
        ELSE IF expr.type = "BooleanLiteral" \/ IsBooleanOperator(expr) THEN "bool"
        ELSE IF expr.type = "ArrayLiteral" THEN "int256[]"
        ELSE "int256")

\* a function whose body is `return not x` has a bool output
C20_Witness ==
    /\ Generated
    /\ Len(TopFunctions) = 1
    /\ TopFunctions[1].returnType = NullType
    /\ TopFunctions[1].body = <<ReturnStatement(UnaryExpression("not"))>>
    /\ \E e \in EntriesNamed(TopFunctions[1].name) :
          e.outputs = <<ABIParam("", "bool")>>

-----------------------------------------------------------------------------
(* Properties of the invocations (checked under SpecCalls). *)

Done(c) == frames[c].pc = "done"

\* the arguments of an invocation
Arguments(c) ==
    IF frames[c].fn = "generateABI" THEN <<frames[c].program>>
    ELSE <<frames[c].source, frames[c].contractName>>

\* what the invocation returns when it runs alone, from entry to return
Alone(c) ==
    IF frames[c].fn = "generateABI" THEN generateABI(frames[c].program)
    ELSE compile(frames[c].source, frames[c].contractName, NoFault)

-----------------------------------------------------------------------------
(* Properties of one run of generateABI (checked under SpecWalk). *)

IsEntryList(list) ==
    \A k \in DOMAIN list :
        /\ list[k].type \in {"event", "constructor", "function"}
        /\ DOMAIN list[k].inputs = 1..Len(list[k].inputs)

\* C18: generateABI terminates and returns a list of ABI entries, without
\* raising, for every program: an empty one, declarations without
\* initializer or annotation, and nested if / else-if / while / for bodies.
C18_TerminatesWithEntryList ==
    <>(walk.pc = "done" /\ IsEntryList(walk.result))

\* the run on a function whose return sits two blocks deep is over, with the
\* list generateABI gives for the program
C18_Witness ==
    /\ walk.pc = "done"
    /\ walk.program.body # <<>>
    /\ walk.program.body[1].type = "FunctionDeclaration"
    /\ walk.program.body[1].body =
          <<Block("elseif", <<Block("for", <<ReturnStatement(StringLiteral)>>)>>)>>
    /\ walk.result = generateABI(walk.program)

\* the run ends with the list generateABI gives for the program
WalkAgreesWithGenerateABI ==
    walk.pc = "done" => walk.result = generateABI(walk.program)

-----------------------------------------------------------------------------
(* Further properties of generateABI (checked under SpecABI). *)

\* the photon_print calls that are statements of their own and have an
\* argument, anywhere in the program
PrintStatementCalls ==
    {st.expression : st \in {t \in StatementsIn(program.body, TRUE) :
                                /\ t.type = "ExpressionStatement"
                                /\ t.expression.type = "CallExpression"
                                /\ t.expression.callee = "photon_print"
                                /\ t.expression.arguments # <<>>}}

HasEvent(name, inputType) ==
    \E k \in DOMAIN abiResult :
        /\ abiResult[k].type = "event"
        /\ abiResult[k].name = name
        /\ Len(abiResult[k].inputs) = 1
        /\ abiResult[k].inputs[1].type = inputType

\* C21: the argument of a photon_print call decides its event: a string
\* literal logs through Log (one string input), a boolean literal or a
\* boolean-valued expression through LogBool (one bool input), and any other
\* argument through LogInt (one int256 input).
C21_VariantByArgument ==
    Generated =>
        \A c \in PrintStatementCalls :
            LET arg == c.arguments[1] IN
            IF arg.type = "StringLiteral" THEN HasEvent("Log", "string")
            ELSE IF arg.type = "BooleanLiteral" \/ IsBooleanOperator(arg)
            THEN HasEvent("LogBool", "bool")
            ELSE HasEvent("LogInt", "int256")

\* the image of an annotation under the fixed table: an absent (null or
\* empty) annotation and an annotation outside the table give int256
ImageOf(annotation) ==
    IF InTable(annotation) THEN MappedType(annotation) ELSE "int256"

ParameterTypesAreImages ==
    \A i \in DOMAIN TopFunctions :
        LET func == TopFunctions[i] IN
        \A e \in EntriesNamed(func.name) :
            /\ Len(e.inputs) = Len(func.params)
            /\ \A j \in DOMAIN func.params :
                  e.inputs[j].type = ImageOf(func.params[j].typeAnnotation)

GetterTypeIsImage(decl) ==
    /\ EntriesNamed(decl.name) # {}
    /\ \A e \in EntriesNamed(decl.name) :
          Len(e.outputs) = 1 /\ e.outputs[1].type = ImageOf(decl.typeAnnotation)

KindRank(entry) ==
    CASE entry.type = "event" -> 1
      [] entry.type = "constructor" -> 2
      [] entry.type = "function" -> 3

EventRank(entry) ==
    CASE entry.name = "Log" -> 1
      [] entry.name = "LogInt" -> 2
      [] entry.name = "LogBool" -> 3

\* C23: the list holds the events first (Log, LogInt, LogBool), then the
\* constructor if any, then the getters in top-level declaration order, then
\* the function entries in top-level declaration order, however declarations
\* and functions are interleaved in the program.
C23_EntryOrder ==
    Generated =>
        LET entries == SelectSeq(abiResult, LAMBDA e : e.type = "function")
            getters == Len(TopDeclarations)
        IN  /\ \A k, l \in DOMAIN abiResult :
                  k < l =>
                      /\ KindRank(abiResult[k]) <= KindRank(abiResult[l])
                      /\ (abiResult[k].type = "event" /\ abiResult[l].type = "event")
                          => EventRank(abiResult[k]) < EventRank(abiResult[l])
                      /\ ~(abiResult[k].type = "constructor"
                           /\ abiResult[l].type = "constructor")
            /\ Len(entries) = getters + Len(TopFunctions)
            /\ \A i \in DOMAIN TopDeclarations :
                  entries[i].name = TopDeclarations[i].name
            /\ \A i \in DOMAIN TopFunctions :
                  entries[getters + i].name = TopFunctions[i].name

\* a function declared before a state variable and a top-level log: the
\* list is Log, constructor, the getter, the function
C23_Witness ==
    /\ Generated
    /\ Len(program.body) = 3
    /\ program.body[1].type = "FunctionDeclaration"
    /\ program.body[2].type = "LetDeclaration"
    /\ program.body[3] = ExpressionStatement(PrintCall(<<StringLiteral>>))
    /\ Len(abiResult) = 4
    /\ abiResult[1].type = "event"
    /\ abiResult[2].type = "constructor"
    /\ abiResult[3].name = program.body[2].name
    /\ abiResult[4].name = program.body[1].name

-----------------------------------------------------------------------------
(* Further properties of one run of generateABI (checked under SpecWalk). *)

\* C24: generateABI and its scans only read the Program: no step of a run
\* changes the AST handed in, node for node and in order.
C24_ProgramOnlyRead ==
    [][walk'.program = walk.program]_vars

\* the run on a declaration without annotation and initializer is over, the
\* getter is pushed and the declaration is as it was
C24_Witness ==
    /\ walk.pc = "done"
    /\ walk.program = Program(<<LetDeclaration("v", NullType, Null)>>)
    /\ Len(walk.result) = 1

-----------------------------------------------------------------------------
(* Further properties of the deploy page (checked under Spec). *)

\* C25: after a compile action the warnings and the error in the page state
\* are those of the CompileResult just returned: no warnings of an earlier
\* successful compile remain after a failed one, and no earlier error after a
\* successful one.
C25_PageShowsLastResult ==
    (Called /\ ~result.thrown) =>
        /\ warnings = result.value.warnings
        /\ compileError = result.value.error

-----------------------------------------------------------------------------
(* Properties of generateABI on photon_print calls without argument        *)
(* (checked under SpecABI).                                                *)

IsPrintStatement(stmt) ==
    /\ stmt.type = "ExpressionStatement"
    /\ stmt.expression.type = "CallExpression"
    /\ stmt.expression.callee = "photon_print"

\* C26: a photon_print call statement without argument sets no log flag, so
\* a program whose photon_print calls all lack an argument has no event
\* entry; yet it makes a value-returning function that holds it "nonpayable".
\* A call statement with an argument does both: its function is "nonpayable"
\* and the list has an event.
C26_PrintWithoutArgument ==
    Generated =>
        /\ (\A c \in PrintCallsOf(StatementsIn(program.body, TRUE)) : c.arguments = <<>>)
           => \A k \in DOMAIN abiResult : abiResult[k].type # "event"
        /\ \A i \in DOMAIN TopFunctions :
              LET func == TopFunctions[i]
                  prints == {st \in StatementsIn(func.body, FALSE) : IsPrintStatement(st)}
              IN  /\ (ReturnsValue(func) /\ prints # {})
                     => \A e \in EntriesNamed(func.name) :
                           e.stateMutability = "nonpayable"
                  /\ (\E st \in prints : st.expression.arguments # <<>>)
                     => \E k \in DOMAIN abiResult : abiResult[k].type = "event"

\* a function `photon_print()` then `return "s"`: one entry, "nonpayable", and
\* no event
C26_Witness ==
    /\ Generated
    /\ Len(TopFunctions) = 1
    /\ TopFunctions[1].body =
          <<ExpressionStatement(PrintCall(<<>>)), ReturnStatement(StringLiteral)>>
    /\ Len(abiResult) = 1
    /\ abiResult[1].type = "function"
    /\ abiResult[1].stateMutability = "nonpayable"
    /\ Len(abiResult[1].outputs) = 1

-----------------------------------------------------------------------------
(* Properties of the bytecode step (checked under SpecBytecode). *)

\* C27: bytecode written by a solc worker result belongs to the solidity in
\* state: a result that arrives after solidity was replaced does not put the
\* bytecode of the previous text next to the new one.
C27_BytecodeOfCurrentSolidity ==
    bytecode # <<>> => bytecode = <<"0x">> \o SolcObject(solidity)

\* C29: whenever a bytecode compilation ends (compiling goes from true to
\* false), solcStatus is "ready" or "error", never left at "loading".
C29_StatusSetWhenRunEnds ==
    [][(page.compiling /\ ~page'.compiling)
          => page'.solcStatus \in {"ready", "error"}]_vars

-----------------------------------------------------------------------------
(* Properties of deployment (checked under SpecDeploy). *)

-----------------------------------------------------------------------------
(* Properties of the contract calls (checked under SpecInteract). *)

====
